---------------------------- MODULE Spec2Model ----------------------------
(***************************************************************************)
(* Trading pipeline of the portfolio repository (projetos/trading bot):   *)
(* the Trade Engine with its Portfolio Manager, Risk Manager and Exchange  *)
(* Gateway (specification Spec), and the Market Data Stream on the asyncio *)
(* event loop (specification StreamSpec).                                  *)
(*                                                                         *)
(* Numbers: Python floats and Decimals are modelled as exact rationals     *)
(* [n, d] with d > 0 (binary rounding error is not modelled).  A record    *)
(* with d = 0 stands for Python's None in an optional numeric field.       *)
(***************************************************************************)
EXTENDS Integers, Sequences, FiniteSets, TLC

(***************************************************************************)
(* Rational arithmetic                                                     *)
(***************************************************************************)
RECURSIVE Gcd(_, _)
Gcd(a, b) ==
    IF b = 0 THEN a ELSE Gcd(b, a % b)

Abs(x) ==
    IF x < 0 THEN -x ELSE x

Rat(n, d) ==
    LET s == IF d < 0 THEN -1 ELSE 1
        g == Gcd(Abs(n), Abs(d))
    IN  [n |-> (s * n) \div g, d |-> (s * d) \div g]

R(i) ==
    [n |-> i, d |-> 1]

NoneNum ==
    [n |-> 0, d |-> 0]

IsNone(a) ==
    a.d = 0

RAdd(a, b) ==
    Rat(a.n * b.d + b.n * a.d, a.d * b.d)

RSub(a, b) ==
    Rat(a.n * b.d - b.n * a.d, a.d * b.d)

RMul(a, b) ==
    Rat(a.n * b.n, a.d * b.d)

RDiv(a, b) ==
    Rat(a.n * b.d, a.d * b.n)

RLt(a, b) ==
    a.n * b.d < b.n * a.d

RLeq(a, b) ==
    a.n * b.d <= b.n * a.d

RMax(a, b) ==
    IF RLt(a, b) THEN b ELSE a

\* Decimal's // truncates toward zero.
RTrunc(a) ==
    IF a.n >= 0 THEN a.n \div a.d ELSE -((-a.n) \div a.d)

(***************************************************************************)
(* Settings and inputs                                                     *)
(***************************************************************************)
Symbol ==
    "BTCUSDT"

Directions ==
    {"long", "short", "flat"}

\* bound on the configured max_concurrent_positions the model explores
MaxPositionsBound ==
    2

\* bound standing for the channel capacity (maxsize = 512 in the source)
QueueMaxsize ==
    2

\* bound on the messages the three exchange streams produce together
MaxMsgs ==
    3

\* immutable account settings handed to RiskManager at startup
\* bound: the exchange fails change_leverage fewer than this many times
MaxLeverageRequests ==
    2

Settings ==
    [quote_balance |-> R(10000),
     leverage |-> 5,
     risk_per_trade_pct |-> Rat(1, 100),
     atr_multiplier_sl |-> Rat(5, 2),
     atr_multiplier_tp |-> R(4),
     trailing_stop |-> TRUE,
     trailing_atr_multiplier |-> Rat(3, 2)]

FixedCostInputs ==
    {R(0), R(50)}

PriceInputs ==
    {R(0), R(100), R(1000)}

AtrInputs ==
    {R(0), R(10), R(1000)}

\* the instrument's trading filters as the exchange publishes them
ExchangeFilters ==
    [LOT_SIZE |-> [stepSize |-> Rat(1, 100), minQty |-> Rat(1, 100)],
     MARKET_LOT_SIZE |-> [stepSize |-> Rat(1, 10), minQty |-> R(1)],
     PRICE_FILTER |-> [tickSize |-> R(2), minPrice |-> R(2), maxPrice |-> R(2000)]]

\* filters with a coarse tick and no lower price limit ("minPrice": "0")
CoarseFilters ==
    [LOT_SIZE |-> [stepSize |-> Rat(1, 100), minQty |-> Rat(1, 100)],
     MARKET_LOT_SIZE |-> [stepSize |-> Rat(1, 10), minQty |-> R(1)],
     PRICE_FILTER |-> [tickSize |-> R(100), minPrice |-> R(0), maxPrice |-> R(2000)]]

FilterInputs ==
    {ExchangeFilters, CoarseFilters}

VARIABLES
    \* PortfolioManager
    positions, max_positions,
    \* TradeEngine
    leverage_synced, dual_side_position,
    \* RiskManager
    fixed_cost,
    \* BinanceFuturesClient
    client_dual_position_mode, symbol_filters,
    \* the exchange account, and the trading filters the exchange publishes
    account_dual, exchange_filters,
    \* the running process_signal call
    pc, decision, price, volatility, sizing, report, outcome,
    \* what the call has sent to the gateway, and the portfolio it started from
    requests, orders, positions_at_call, flags_at_call, can_open_result,
    \* how often the engine has sent each cached-flag request since construction
    request_count,
    \* whether the exchange account holds a position opened by this engine
    exchange_position,
    \* the caller: _handle_events of main.py, or any other caller
    driver, loop

VARIABLES
    \* MarketDataStream: _queue (with the waiters of asyncio.Queue), _stop, _tasks
    queue, putters, getter_waiting, stop_flag, tasks,
    \* the three listener tasks
    lstate, held, must_cancel, sent,
    \* the event loop's FIFO of tasks scheduled to run
    ready,
    \* the consumer of events() and a task that calls stop() from outside
    cstate, sstate, waiting, stop_returned,
    \* every event enqueued, and every event handed to the consumer, in order
    enqueued, delivered

VARIABLES
    \* one call of a function of the program on its own, and what it returned
    pure_call, pure_result

VARIABLES
    \* _handle_events of main.py: its flag, its candle series, the rolling
    \* buffers of its OrderFlowAnalyzer
    run_once, cached_klines, of_buffer,
    \* every event the loop has handled with what it read in the payload, and
    \* the events for which it evaluated a signal and called process_signal
    handled, calls

VARIABLES
    \* OrderFlowAnalyzer: its two deques, and every entry ever given to each
    of_trades, of_liquidations, trade_log, liquidation_log

pureVars ==
    <<pure_call, pure_result>>

flowVars ==
    <<of_trades, of_liquidations, trade_log, liquidation_log>>

loopVars ==
    <<run_once, cached_klines, of_buffer, handled, calls>>

streamVars ==
    <<queue, putters, getter_waiting, stop_flag, tasks, lstate, held, must_cancel,
      sent, ready, cstate, sstate, waiting, stop_returned, enqueued, delivered>>

engineVars ==
    <<positions, max_positions, leverage_synced, dual_side_position, fixed_cost,
      client_dual_position_mode, symbol_filters, account_dual,
      pc, decision, price, volatility, sizing, report, outcome,
      requests, orders, positions_at_call, flags_at_call, can_open_result,
      request_count, exchange_position, exchange_filters, driver, loop>>

\* what the steps of the engine, and the steps of the stream, leave alone
nonEngineVars ==
    <<streamVars, pureVars, loopVars, flowVars>>

nonStreamVars ==
    <<engineVars, pureVars, loopVars, flowVars>>


(***************************************************************************)
(* RiskManager (risk_manager.py)                                           *)
(***************************************************************************)
\* RiskManager.__init__, lines 28-32: the account as the manager keeps it
RiskManager(quote_balance, leverage, risk_per_trade_pct, fixed) ==
    [balance |-> quote_balance,
     leverage |-> leverage,
     risk_perc |-> IF RLt(R(1), risk_per_trade_pct)
                   THEN RDiv(risk_per_trade_pct, R(100))
                   ELSE risk_per_trade_pct,
     fixed_cost |-> RMax(fixed, R(0))]

\* _position_risk of a manager
position_risk_of(rm) ==
    RMul(rm.balance, rm.risk_perc)

\* _empty_sizing of a manager
empty_sizing_of(rm) ==
    [quantity |-> R(0), leverage |-> rm.leverage, notional |-> R(0),
     cost |-> R(0), stop_loss |-> R(0), take_profit |-> R(0),
     trailing_active |-> FALSE]

\* mutant: only a negative stop distance is refused
stop_distance_negative(stop_distance) ==
    RLt(stop_distance, R(0))

\* line 70: if stop_distance <= 0
stop_distance_invalid(stop_distance) ==
    RLeq(stop_distance, R(0))

\* mutant: the amounts are returned as computed
clamp_none(amount) ==
    amount

\* lines 83-85: max(amount, 0.0)
clamp(amount) ==
    RMax(amount, R(0))

\* mutant: the risk-based quantity ignores the leverage
risk_quantity_unlevered(rm, stop_distance) ==
    RDiv(position_risk_of(rm), stop_distance)

\* lines 78-79: the quantity that risks risk_amount over the stop distance
risk_quantity(rm, stop_distance) ==
    RDiv(RMul(position_risk_of(rm), R(rm.leverage)), stop_distance)

\* size_position of a manager, lines 56-105
size_position_of(rm, p, atr, direction) ==
    LET lev           == R(rm.leverage)
        stop_distance == RMul(atr, Settings.atr_multiplier_sl)
        tp_distance   == RMul(atr, Settings.atr_multiplier_tp)
        fixed         == RLt(R(0), rm.fixed_cost)
        raw_quantity  == IF fixed THEN RDiv(RMul(rm.fixed_cost, lev), p)
                         ELSE risk_quantity(rm, stop_distance)
        raw_notional  == IF fixed THEN RMul(rm.fixed_cost, lev)
                         ELSE RMul(raw_quantity, p)
        raw_cost      == IF fixed THEN rm.fixed_cost
                         ELSE IF rm.leverage # 0 THEN RDiv(raw_notional, lev)
                         ELSE R(0)
        quantity      == clamp(raw_quantity)
        notional      == clamp(raw_notional)
        cost          == clamp(raw_cost)
    IN  IF direction \notin {"long", "short"} THEN empty_sizing_of(rm)
        ELSE IF RLeq(p, R(0)) THEN empty_sizing_of(rm)
        ELSE IF stop_distance_invalid(stop_distance) THEN empty_sizing_of(rm)
        ELSE IF quantity = R(0) \/ notional = R(0) THEN empty_sizing_of(rm)
        ELSE [quantity |-> quantity,
              leverage |-> rm.leverage,
              notional |-> notional,
              cost |-> cost,
              stop_loss |-> IF direction = "long" THEN RSub(p, stop_distance)
                            ELSE RAdd(p, stop_distance),
              take_profit |-> IF direction = "long" THEN RAdd(p, tp_distance)
                              ELSE RSub(p, tp_distance),
              trailing_active |-> Settings.trailing_stop
                                  /\ RLt(R(0), Settings.trailing_atr_multiplier)]

\* main.py lines 78-84: the manager the engine is given
engine_risk_manager ==
    RiskManager(Settings.quote_balance, Settings.leverage,
                Settings.risk_per_trade_pct, fixed_cost)

risk_perc ==
    engine_risk_manager.risk_perc

position_risk ==
    position_risk_of(engine_risk_manager)

empty_sizing ==
    empty_sizing_of(engine_risk_manager)

size_position(p, atr, direction) ==
    size_position_of(engine_risk_manager, p, atr, direction)

(***************************************************************************)
(* PortfolioManager (portfolio/manager.py): a dict from key to Position    *)
(***************************************************************************)
EmptyPortfolio ==
    [k \in {} |-> k]

has_position(ps, symbol) ==
    symbol \in DOMAIN ps

\* mutant: the limit test admits one position too many
can_open_off_by_one(ps, symbol) ==
    IF symbol \in DOMAIN ps THEN FALSE
    ELSE Cardinality(DOMAIN ps) <= max_positions

can_open(ps, symbol) ==
    IF symbol \in DOMAIN ps THEN FALSE
    ELSE Cardinality(DOMAIN ps) < max_positions

\* mutant: the dict is keyed by the direction of the position
add_position_by_direction(ps, position) ==
    [k \in DOMAIN ps \cup {position.direction} |->
        IF k = position.direction THEN position ELSE ps[k]]

add_position(ps, position) ==
    [k \in DOMAIN ps \cup {position.symbol} |->
        IF k = position.symbol THEN position ELSE ps[k]]

\* mutant: the position is not removed
remove_position_noop(ps, symbol) ==
    ps

remove_position(ps, symbol) ==
    IF symbol \in DOMAIN ps
    THEN [k \in DOMAIN ps \ {symbol} |-> ps[k]]
    ELSE ps

(***************************************************************************)
(* BinanceFuturesClient (binance_client.py): order normalization           *)
(***************************************************************************)
OrderRequest(side, quantity, order_type, stop_price, reduce_only, position_side) ==
    [symbol |-> Symbol, side |-> side, quantity |-> quantity,
     order_type |-> order_type, stop_price |-> stop_price,
     reduce_only |-> reduce_only, position_side |-> position_side]

select_lot_filter(filters, order_type) ==
    IF order_type \in {"MARKET", "STOP_MARKET", "TAKE_PROFIT_MARKET"}
    THEN IF "MARKET_LOT_SIZE" \in DOMAIN filters
         THEN filters.MARKET_LOT_SIZE ELSE filters.LOT_SIZE
    ELSE IF "LOT_SIZE" \in DOMAIN filters
         THEN filters.LOT_SIZE ELSE filters.MARKET_LOT_SIZE

round_to_step(value, step) ==
    IF RLeq(step, R(0)) THEN value
    ELSE RMul(R(RTrunc(RDiv(value, step))), step)

has_lot_filter(filters) ==
    "MARKET_LOT_SIZE" \in DOMAIN filters \/ "LOT_SIZE" \in DOMAIN filters

\* the price loop of _apply_symbol_filters, for the stopPrice parameter
normalize_price(value, filters) ==
    IF "PRICE_FILTER" \notin DOMAIN filters THEN value
    ELSE LET f       == filters.PRICE_FILTER
             rounded == round_to_step(value, f.tickSize)
             low     == IF RLt(rounded, f.minPrice) THEN f.minPrice ELSE rounded
         IN  IF RLt(f.maxPrice, low) THEN f.maxPrice ELSE low

\* _apply_symbol_filters: [ok, order]; the order is mutated in place by the code
apply_symbol_filters(order, filters) ==
    LET has_qty  == order.quantity # R(0) /\ has_lot_filter(filters)
        lot      == select_lot_filter(filters, order.order_type)
        qty      == IF has_qty THEN round_to_step(order.quantity, lot.stepSize)
                    ELSE order.quantity
        qty_ok   == ~has_qty \/ (RLt(R(0), qty) /\ RLeq(lot.minQty, qty))
        stop     == IF IsNone(order.stop_price) THEN order.stop_price
                    ELSE normalize_price(order.stop_price, filters)
    IN  IF qty_ok
        THEN [ok |-> TRUE, order |-> [order EXCEPT !.quantity = qty, !.stop_price = stop]]
        ELSE [ok |-> FALSE, order |-> order]

\* place_order: info_ok and exchange_ok are the answers of the exchange to the
\* exchange-info request (sent when the filters are not cached) and to the
\* order itself
place_order(order, info_ok, exchange_ok) ==
    LET cached  == Symbol \in DOMAIN symbol_filters
        fetched == ~cached /\ info_ok
        reqs0   == IF cached THEN <<>> ELSE <<"exchange_info">>
        cache   == IF fetched THEN [k \in {Symbol} |-> exchange_filters] ELSE symbol_filters
        applied == apply_symbol_filters(order, exchange_filters)
    IN  IF ~cached /\ ~info_ok
        THEN [outcome |-> "info_failed", order |-> order, reqs |-> reqs0, cache |-> cache]
        ELSE IF ~applied.ok
        THEN [outcome |-> "invalid", order |-> order, reqs |-> reqs0, cache |-> cache]
        ELSE [outcome |-> IF exchange_ok THEN "accepted" ELSE "rejected",
              order |-> applied.order,
              reqs |-> Append(reqs0, "create_order"),
              cache |-> cache]

(***************************************************************************)
(* TradeEngine (execution/trade_engine.py)                                 *)
(***************************************************************************)
NoReport ==
    [opened |-> FALSE, closed |-> FALSE, adjusted |-> FALSE, message |-> ""]

ExecutionReport(opened, closed, message) ==
    [opened |-> opened, closed |-> closed, adjusted |-> FALSE, message |-> message]

\* uses_dual_position_mode of the client: a failed query answers False
uses_dual_position_mode(mode_ok) ==
    IF client_dual_position_mode # "None" THEN client_dual_position_mode = "True"
    ELSE IF mode_ok THEN account_dual ELSE FALSE

\* _is_dual_position_mode: the engine's cached answer
is_dual_position_mode(mode_ok) ==
    IF dual_side_position # "None" THEN dual_side_position = "True"
    ELSE uses_dual_position_mode(mode_ok)

\* mutant: the tag is derived in one-way mode too
position_side_for_untested(direction, mode_ok) ==
    IF direction \notin {"long", "short"} THEN "NONE"
    ELSE IF direction = "long" THEN "LONG" ELSE "SHORT"

position_side_for(direction, mode_ok) ==
    IF direction \notin {"long", "short"} THEN "NONE"
    ELSE IF ~is_dual_position_mode(mode_ok) THEN "NONE"
    ELSE IF direction = "long" THEN "LONG" ELSE "SHORT"

\* the requests a position-side lookup sends to the exchange
mode_requests(direction) ==
    IF direction \in {"long", "short"} /\ dual_side_position = "None"
       /\ client_dual_position_mode = "None"
    THEN <<"get_position_mode">> ELSE <<>>

BoolStr(b) ==
    IF b THEN "True" ELSE "False"

\* mutant: the answer of the lookup is not kept
SideLookupUncached(direction, mode_ok) ==
    UNCHANGED <<dual_side_position, client_dual_position_mode>>

\* the caches after a position-side lookup
SideLookup(direction, mode_ok) ==
    IF direction \in {"long", "short"} /\ dual_side_position = "None"
    THEN /\ dual_side_position' = BoolStr(is_dual_position_mode(mode_ok))
         /\ client_dual_position_mode' = BoolStr(uses_dual_position_mode(mode_ok))
    ELSE UNCHANGED <<dual_side_position, client_dual_position_mode>>

\* mutant: the direction test is inverted
is_reversal_inverted(position, direction) ==
    position.direction = direction

\* line 67: the open position opposes the decision
is_reversal(position, direction) ==
    position.direction # direction

\* mutant: every closing and protection order is flagged reduce-only
reduce_only_always(position_side) ==
    TRUE

reduce_only_for(position_side) ==
    position_side = "NONE"

close_order(position, position_side) ==
    OrderRequest(IF position.direction = "long" THEN "SELL" ELSE "BUY",
                 position.quantity, "MARKET", NoneNum,
                 reduce_only_for(position_side), position_side)

open_order(direction, sz, position_side) ==
    OrderRequest(IF direction = "long" THEN "BUY" ELSE "SELL",
                 sz.quantity, "MARKET", NoneNum, FALSE, position_side)

\* mutant: the first protection order is the take-profit order
stop_order_swapped(direction, sz, position_side) ==
    OrderRequest(IF direction = "long" THEN "SELL" ELSE "BUY",
                 sz.quantity, "TAKE_PROFIT_MARKET", sz.take_profit,
                 reduce_only_for(position_side), position_side)

stop_order(direction, sz, position_side) ==
    OrderRequest(IF direction = "long" THEN "SELL" ELSE "BUY",
                 sz.quantity, "STOP_MARKET", sz.stop_loss,
                 reduce_only_for(position_side), position_side)

take_profit_order(direction, sz, position_side) ==
    OrderRequest(IF direction = "long" THEN "SELL" ELSE "BUY",
                 sz.quantity, "TAKE_PROFIT_MARKET", sz.take_profit,
                 reduce_only_for(position_side), position_side)

\* `order.stop_price or sizing.x`: None and 0.0 are falsy
stop_price_or(stop_price, old) ==
    IF IsNone(stop_price) \/ stop_price = R(0) THEN old ELSE stop_price

Position(direction, entry_price, sz) ==
    [symbol |-> Symbol, direction |-> direction, entry_price |-> entry_price,
     quantity |-> sz.quantity, stop_loss |-> sz.stop_loss,
     take_profit |-> sz.take_profit, trailing_active |-> sz.trailing_active,
     notional |-> sz.notional, cost |-> sz.cost]

\* the call returns a report
Return(r) ==
    /\ report' = r
    /\ outcome' = "returned"
    /\ pc' = "idle"
    /\ UNCHANGED loop

\* mutant: the failure is swallowed and the call returns normally
Raise_swallowed(kind) ==
    /\ outcome' = "returned"
    /\ pc' = "idle"
    /\ UNCHANGED <<report, loop>>

\* an exception leaves process_signal; _handle_events does not catch it, so
\* its event loop ends
Raise(kind) ==
    /\ outcome' = kind
    /\ pc' = "idle"
    /\ loop' = IF driver = "main" THEN "exited" ELSE loop
    /\ UNCHANGED report

CountedRequests ==
    {"change_leverage", "get_position_mode"}

Count(reqs, kind) ==
    Cardinality({i \in DOMAIN reqs : reqs[i] = kind})

Log(res) ==
    /\ orders' = Append(orders, [request |-> res.request, outcome |-> res.outcome,
                                 sent |-> res.order])
    /\ requests' = requests \o res.reqs
    /\ request_count' = [k \in CountedRequests |-> request_count[k] + Count(res.reqs, k)]
    /\ symbol_filters' = res.cache

\* one place_order call of the engine, with the request it was given
Placed(order, mode_reqs, info_ok, exchange_ok) ==
    LET res == place_order(order, info_ok, exchange_ok)
    IN  [request |-> order, outcome |-> res.outcome, order |-> res.order,
         reqs |-> mode_reqs \o res.reqs, cache |-> res.cache]

InitEngine ==
    /\ positions = EmptyPortfolio
    /\ max_positions \in 0..MaxPositionsBound
    /\ leverage_synced = FALSE
    /\ dual_side_position = "None"
    /\ fixed_cost \in FixedCostInputs
    /\ client_dual_position_mode = "None"
    /\ symbol_filters = [k \in {} |-> k]
    /\ account_dual \in BOOLEAN
    /\ pc = "idle"
    /\ decision = "flat"
    /\ price = R(0)
    /\ volatility = R(0)
    /\ sizing = empty_sizing
    /\ report = NoReport
    /\ outcome = "none"
    /\ requests = <<>>
    /\ orders = <<>>
    /\ positions_at_call = EmptyPortfolio
    /\ flags_at_call = <<FALSE, "None">>
    /\ can_open_result = "none"
    /\ request_count = [k \in CountedRequests |-> 0]
    /\ exchange_position = FALSE
    /\ exchange_filters \in FilterInputs
    /\ driver \in {"main", "direct"}
    /\ loop = "running"

\* process_signal(decision, price, volatility) is entered
BeginCall(direction, p, atr) ==
    /\ pc = "idle"
    /\ loop = "running"
    /\ pc' = "ensure_leverage"
    /\ decision' = direction
    /\ price' = p
    /\ volatility' = atr
    /\ sizing' = empty_sizing
    /\ report' = NoReport
    /\ outcome' = "none"
    /\ requests' = <<>>
    /\ orders' = <<>>
    /\ positions_at_call' = positions
    /\ flags_at_call' = <<leverage_synced, dual_side_position>>
    /\ can_open_result' = "none"
    /\ UNCHANGED <<positions, max_positions, leverage_synced, dual_side_position,
                   fixed_cost, client_dual_position_mode, symbol_filters,
                   account_dual, request_count, driver, loop, exchange_position,
                   exchange_filters>>

\* main.py line 154 (or any caller): process_signal(decision, price, volatility)
ProcessSignal(direction, p, atr) ==
    /\ BeginCall(direction, p, atr)
    /\ UNCHANGED nonEngineVars

\* mutant: the request is sent whatever the flag says
leverage_sync_always(synced) ==
    TRUE

\* _ensure_leverage, line 38: the guard on the cached flag
leverage_sync_needed(synced) ==
    ~synced

\* _ensure_leverage: line 56 of process_signal
EnsureLeverage ==
    /\ pc = "ensure_leverage"
    /\ IF ~leverage_sync_needed(leverage_synced)
       THEN /\ pc' = "dispatch"
            /\ UNCHANGED <<leverage_synced, requests, request_count, outcome,
                           loop, report>>
       ELSE /\ requests' = Append(requests, "change_leverage")
            /\ request_count' = [request_count EXCEPT !["change_leverage"] = @ + 1]
            /\ \E leverage_ok \in
                     IF request_count["change_leverage"] + 1 >= MaxLeverageRequests
                     THEN {TRUE} ELSE BOOLEAN :
                 IF leverage_ok
                 THEN /\ leverage_synced' = TRUE
                      /\ pc' = "dispatch"
                      /\ UNCHANGED <<outcome, loop, report>>
                 ELSE /\ Raise("change_leverage_failed")
                      /\ UNCHANGED leverage_synced
    /\ UNCHANGED <<positions, max_positions, dual_side_position, fixed_cost,
                   client_dual_position_mode, symbol_filters, account_dual,
                   decision, price, volatility, sizing, orders,
                   positions_at_call, flags_at_call, can_open_result, driver, exchange_position,
                   exchange_filters>>
    /\ UNCHANGED nonEngineVars

\* lines 57-80 of process_signal: the branch taken, up to its first order
Dispatch ==
    /\ pc = "dispatch"
    /\ LET open_now == has_position(positions, Symbol)
           sz   == size_position(price, volatility, decision)
       IN  IF decision = "flat"
           THEN IF open_now
                THEN /\ pc' = "close"
                     /\ UNCHANGED <<report, outcome, loop, can_open_result, sizing>>
                ELSE /\ Return(ExecutionReport(FALSE, FALSE, "Nada a fazer - sinal neutro"))
                     /\ UNCHANGED <<can_open_result, sizing>>
           ELSE IF open_now
           THEN IF is_reversal(positions[Symbol], decision)
                THEN /\ pc' = "close"
                     /\ UNCHANGED <<report, outcome, loop, can_open_result, sizing>>
                ELSE /\ Return(ExecutionReport(FALSE, FALSE, "Mantendo posicao atual"))
                     /\ UNCHANGED <<can_open_result, sizing>>
           ELSE IF ~can_open(positions, Symbol)
           THEN /\ Return(ExecutionReport(FALSE, FALSE, "Limite de posicoes atingido"))
                /\ can_open_result' = "False"
                /\ UNCHANGED sizing
           ELSE IF RLeq(sz.quantity, R(0))
           THEN /\ Return(ExecutionReport(FALSE, FALSE, "Tamanho de posicao invalido"))
                /\ can_open_result' = "True"
                /\ sizing' = sz
           ELSE /\ pc' = "open"
                /\ can_open_result' = "True"
                /\ sizing' = sz
                /\ UNCHANGED <<report, outcome, loop>>
    /\ UNCHANGED <<positions, max_positions, leverage_synced, dual_side_position,
                   fixed_cost, client_dual_position_mode, symbol_filters,
                   account_dual, decision, price, volatility, requests, orders,
                   positions_at_call, flags_at_call, request_count, driver, exchange_position,
                   exchange_filters>>
    /\ UNCHANGED nonEngineVars

\* _close_position, then remove_position and the report (lines 61-63, 68-70)
ClosePosition ==
    /\ pc = "close"
    /\ \E mode_ok \in BOOLEAN, info_ok \in BOOLEAN, exchange_ok \in BOOLEAN :
         LET position == positions[Symbol]
             side     == position_side_for(position.direction, mode_ok)
             res      == Placed(close_order(position, side),
                                mode_requests(position.direction), info_ok, exchange_ok)
         IN  /\ SideLookup(position.direction, mode_ok)
             /\ Log(res)
             /\ exchange_position' = IF res.outcome = "accepted" THEN FALSE
                                      ELSE exchange_position
             /\ IF res.outcome = "accepted"
                THEN /\ positions' = remove_position(positions, Symbol)
                     /\ Return(ExecutionReport(FALSE, TRUE,
                                 IF decision = "flat"
                                 THEN "Fechando posicao por sinal neutro"
                                 ELSE "Reversao de posicao"))
                ELSE /\ Raise(res.outcome)
                     /\ UNCHANGED positions
    /\ UNCHANGED <<max_positions, leverage_synced, fixed_cost, account_dual,
                   decision, price, volatility, sizing, positions_at_call,
                   flags_at_call, can_open_result, driver,
                   exchange_filters>>
    /\ UNCHANGED nonEngineVars

\* _open_position up to line 105: the opening order
OpenPosition ==
    /\ pc = "open"
    /\ \E mode_ok \in BOOLEAN, info_ok \in BOOLEAN, exchange_ok \in BOOLEAN :
         LET side == position_side_for(decision, mode_ok)
             res  == Placed(open_order(decision, sizing, side),
                            mode_requests(decision), info_ok, exchange_ok)
         IN  /\ SideLookup(decision, mode_ok)
             /\ Log(res)
             /\ exchange_position' = IF res.outcome = "accepted" THEN TRUE
                                      ELSE exchange_position
             /\ IF res.outcome = "accepted"
                THEN /\ sizing' = [sizing EXCEPT !.quantity = res.order.quantity]
                     /\ pc' = "stop"
                     /\ UNCHANGED <<report, outcome, loop>>
                ELSE /\ Raise(res.outcome)
                     /\ UNCHANGED sizing
    /\ UNCHANGED <<positions, max_positions, leverage_synced, fixed_cost,
                   account_dual, decision, price, volatility, positions_at_call,
                   flags_at_call, can_open_result, driver,
                   exchange_filters>>
    /\ UNCHANGED nonEngineVars

\* _place_protection_orders up to line 146: the stop-loss order
PlaceStopOrder ==
    /\ pc = "stop"
    /\ \E mode_ok \in BOOLEAN, info_ok \in BOOLEAN, exchange_ok \in BOOLEAN :
         LET side == position_side_for(decision, mode_ok)
             res  == Placed(stop_order(decision, sizing, side),
                            mode_requests(decision), info_ok, exchange_ok)
         IN  /\ SideLookup(decision, mode_ok)
             /\ Log(res)
             /\ IF res.outcome = "accepted"
                THEN /\ sizing' = [sizing EXCEPT !.stop_loss =
                                      stop_price_or(res.order.stop_price, sizing.stop_loss)]
                     /\ pc' = "take_profit"
                     /\ UNCHANGED <<report, outcome, loop>>
                ELSE /\ Raise(res.outcome)
                     /\ UNCHANGED sizing
    /\ UNCHANGED <<positions, max_positions, leverage_synced, fixed_cost,
                   account_dual, decision, price, volatility, positions_at_call,
                   flags_at_call, can_open_result, driver, exchange_position,
                   exchange_filters>>
    /\ UNCHANGED nonEngineVars

\* lines 147-148, then lines 81-93 of process_signal: the take-profit order,
\* the registration of the Position and the report
PlaceTakeProfitOrder ==
    /\ pc = "take_profit"
    /\ \E info_ok \in BOOLEAN, exchange_ok \in BOOLEAN :
         LET side == position_side_for(decision, FALSE)
             res  == Placed(take_profit_order(decision, sizing, side),
                            <<>>, info_ok, exchange_ok)
             sz   == [sizing EXCEPT !.take_profit =
                         stop_price_or(res.order.stop_price, sizing.take_profit)]
         IN  /\ Log(res)
             /\ IF res.outcome = "accepted"
                THEN /\ sizing' = sz
                     /\ positions' = add_position(positions, Position(decision, price, sz))
                     /\ Return(ExecutionReport(TRUE, FALSE, "Posicao aberta"))
                ELSE /\ Raise(res.outcome)
                     /\ UNCHANGED <<sizing, positions>>
    /\ UNCHANGED <<max_positions, leverage_synced, dual_side_position, fixed_cost,
                   client_dual_position_mode, account_dual, decision, price,
                   volatility, positions_at_call, flags_at_call, can_open_result,
                   driver, exchange_position,
                   exchange_filters>>
    /\ UNCHANGED nonEngineVars

EngineNext ==
    \/ \E direction \in Directions, p \in PriceInputs, atr \in AtrInputs :
         ProcessSignal(direction, p, atr)
    \/ EnsureLeverage
    \/ Dispatch
    \/ ClosePosition
    \/ OpenPosition
    \/ PlaceStopOrder
    \/ PlaceTakeProfitOrder

(***************************************************************************)
(* MarketDataStream (data/market_data_stream.py) on the asyncio event loop *)
(*                                                                         *)
(* One cooperative thread: the task at the head of `ready` runs up to its  *)
(* next suspension point; a task whose awaited future is resolved or       *)
(* cancelled is appended to `ready`.                                       *)
(***************************************************************************)
Listeners ==
    {"kline", "trade", "liquidation"}

TaskOrder ==
    <<"kline", "trade", "liquidation">>

Callers ==
    {"consumer", "stopper"}

\* a payload, as far as the stream looks into it: its "e" tag
Payload(e) ==
    [e |-> e]

NoPayload ==
    Payload("none")

\* what socket.recv() hands to a stream: a payload, bare or wrapped in a
\* multiplex envelope {"stream": ..., "data": payload}, or an error frame
\* put there by the socket library
Frames(k) ==
    [wrapped : BOOLEAN,
     data : IF k = "kline" THEN {Payload("kline")}
            ELSE IF k = "trade" THEN {Payload("aggTrade")}
            ELSE {Payload("forceOrder")}]
    \cup {[wrapped |-> FALSE, data |-> Payload("error")]}

\* mutant: error frames are handed on like any payload
normalize_stream_payload_unchecked(message) ==
    [raised |-> FALSE, payload |-> message.data]

\* _normalize_stream_payload: an error frame raises, an envelope is unwrapped
normalize_stream_payload(message) ==
    IF ~message.wrapped /\ message.data.e = "error"
    THEN [raised |-> TRUE, payload |-> NoPayload]
    ELSE [raised |-> FALSE, payload |-> message.data]

\* one step of a stream generator: recv raises, or its message is normalized
RecvOutcomes(k) ==
    {[raised |-> TRUE, payload |-> NoPayload]}
    \cup {normalize_stream_payload(message) : message \in Frames(k)}

MarketEvent(event_type, n, payload) ==
    [event_type |-> event_type, n |-> n, payload |-> payload]

NoEvent ==
    MarketEvent("none", 0, NoPayload)

\* mutant: the queue takes one event more than maxsize
full_beyond(q) ==
    Len(q) > QueueMaxsize

full(q) ==
    Len(q) >= QueueMaxsize

\* mutant: the event is put at the head of the queue
put_nowait_front(q, event) ==
    <<event>> \o q

put_nowait(q, event) ==
    Append(q, event)

get_nowait(q) ==
    Head(q)

\* the loop condition of events()
events_continue ==
    ~stop_flag

Running(k) ==
    ready # <<>> /\ Head(ready) = k

\* messages the exchange streams have produced so far
TotalSent ==
    sent["kline"] + sent["trade"] + sent["liquidation"]

\* the tasks of _tasks that are not done
pending_tasks ==
    SelectSeq(tasks, LAMBDA k : lstate[k] # "done")

InitStream ==
    /\ queue = <<>>
    /\ putters = <<>>
    /\ getter_waiting = FALSE
    /\ stop_flag = FALSE
    /\ tasks = <<>>
    /\ lstate = [k \in Listeners |-> "none"]
    /\ held = [k \in Listeners |-> NoEvent]
    /\ must_cancel = [k \in Listeners |-> FALSE]
    /\ sent = [k \in Listeners |-> 0]
    /\ ready = <<"consumer">>
    /\ cstate = "boot"
    /\ sstate = "idle"
    /\ waiting = [c \in Callers |-> "none"]
    /\ stop_returned = {}
    /\ enqueued = <<>>
    /\ delivered = <<>>

\* start(): the history fetch has answered; bootstrap event, then the tasks
Start ==
    /\ Running("consumer")
    /\ cstate = "boot"
    /\ \E fetch_ok \in BOOLEAN :
         IF fetch_ok
         THEN /\ queue' = put_nowait(queue, MarketEvent("bootstrap_klines", 1,
                                                       Payload("klines")))
              /\ enqueued' = Append(enqueued, MarketEvent("bootstrap_klines", 1,
                                                          Payload("klines")))
              /\ stop_flag' = FALSE
              /\ tasks' = TaskOrder
              /\ lstate' = [k \in Listeners |-> "new"]
              /\ ready' = <<"consumer">> \o Tail(ready) \o TaskOrder
              /\ cstate' = "run"
         ELSE /\ cstate' = "ended"
              /\ ready' = Tail(ready)
              /\ UNCHANGED <<queue, enqueued, stop_flag, tasks, lstate>>
    /\ UNCHANGED <<putters, getter_waiting, held, must_cancel, sent, sstate,
                   waiting, stop_returned, delivered>>
    /\ UNCHANGED nonStreamVars

\* a listener task ends: whoever awaits it in stop() is scheduled
Finish(k) ==
    /\ lstate' = [lstate EXCEPT ![k] = "done"]
    /\ held' = [held EXCEPT ![k] = NoEvent]
    /\ must_cancel' = [must_cancel EXCEPT ![k] = FALSE]
    /\ waiting' = [c \in Callers |-> IF waiting[c] = k THEN "none" ELSE waiting[c]]
    /\ ready' = Tail(ready) \o SelectSeq(<<"consumer", "stopper">>,
                                         LAMBDA c : waiting[c] = k)
    /\ UNCHANGED <<queue, putters, getter_waiting, stop_flag, tasks, sent, cstate,
                   sstate, stop_returned, enqueued, delivered>>

\* _dispatch_stream starts: the stream factory opens its socket and waits
ListenerStart(k) ==
    /\ Running(k)
    /\ lstate[k] = "new"
    /\ ~must_cancel[k]
    /\ \E open_ok \in BOOLEAN :
         IF open_ok
         THEN /\ lstate' = [lstate EXCEPT ![k] = "recv"]
              /\ ready' = Tail(ready)
              /\ UNCHANGED <<queue, putters, getter_waiting, stop_flag, tasks, held,
                             must_cancel, sent, cstate, sstate, waiting,
                             stop_returned, enqueued, delivered>>
         ELSE Finish(k)
    /\ UNCHANGED nonStreamVars

\* the state of a listener that has the outcome r of a recv, its n-th
Received(k, r, n) ==
    /\ lstate' = [lstate EXCEPT ![k] = IF r.raised THEN "fault" ELSE "msg"]
    /\ held' = [held EXCEPT ![k] = IF r.raised THEN NoEvent
                                   ELSE MarketEvent(k, n, r.payload)]

\* the exchange stream answers the pending recv: a payload, or a fault (an
\* error frame or a transport error)
Arrive(k) ==
    /\ lstate[k] = "recv"
    /\ ~must_cancel[k]
    /\ TotalSent < MaxMsgs
    /\ \E r \in RecvOutcomes(k) : Received(k, r, sent[k] + 1)
    /\ sent' = [sent EXCEPT ![k] = @ + 1]
    /\ ready' = Append(ready, k)
    /\ UNCHANGED <<queue, putters, getter_waiting, stop_flag, tasks,
                   must_cancel, cstate, sstate, waiting, stop_returned, enqueued,
                   delivered>>
    /\ UNCHANGED nonStreamVars

\* lines 75-77: CancelledError is thrown into the task at its suspension point
ListenerCancelled(k) ==
    /\ Running(k)
    /\ must_cancel[k]
    /\ Finish(k)
    /\ UNCHANGED nonStreamVars

\* lines 78-79: the fault is logged and the task returns
ListenerFault(k) ==
    /\ Running(k)
    /\ lstate[k] = "fault"
    /\ ~must_cancel[k]
    /\ Finish(k)
    /\ UNCHANGED nonStreamVars

\* lines 71-72: a payload received although stop() has run (the stream
\* library may hand over a payload that was ready when the cancellation came)
ListenerBreak(k) ==
    /\ Running(k)
    /\ lstate[k] = "msg"
    /\ stop_flag
    /\ Finish(k)
    /\ UNCHANGED nonStreamVars

\* lines 73-74: the event is built and put; a full queue suspends the task
ListenerPut(k) ==
    /\ Running(k)
    /\ ~must_cancel[k]
    /\ \/ lstate[k] = "msg" /\ ~stop_flag
       \/ lstate[k] = "put_woken"
    /\ LET event == held[k]
           wake  == IF getter_waiting THEN <<"consumer">> ELSE <<>>
       IN  IF full(queue)
           THEN /\ lstate' = [lstate EXCEPT ![k] = "put"]
                /\ putters' = Append(putters, k)
                /\ ready' = Tail(ready)
                /\ UNCHANGED <<queue, enqueued, getter_waiting, cstate, sent, held>>
           ELSE /\ queue' = put_nowait(queue, event)
                /\ enqueued' = Append(enqueued, event)
                /\ getter_waiting' = FALSE
                /\ cstate' = IF getter_waiting THEN "get_woken" ELSE cstate
                /\ UNCHANGED putters
                /\ \/ /\ lstate' = [lstate EXCEPT ![k] = "recv"]
                      /\ held' = [held EXCEPT ![k] = NoEvent]
                      /\ ready' = Tail(ready) \o wake
                      /\ UNCHANGED sent
                   \/ /\ TotalSent < MaxMsgs
                      /\ \E r \in RecvOutcomes(k) : Received(k, r, sent[k] + 1)
                      /\ sent' = [sent EXCEPT ![k] = @ + 1]
                      /\ ready' = <<k>> \o Tail(ready) \o wake
    /\ UNCHANGED <<stop_flag, tasks, must_cancel, sstate, waiting, stop_returned,
                   delivered>>
    /\ UNCHANGED nonStreamVars

\* events(), line 82: the stop flag ends the iteration; the consumer then
\* leaves its `async with` block, which calls stop()
EventsEnd ==
    /\ Running("consumer")
    /\ cstate = "run"
    /\ ~events_continue
    /\ cstate' = "exit"
    /\ UNCHANGED <<queue, putters, getter_waiting, stop_flag, tasks, lstate, held,
                   must_cancel, sent, ready, sstate, waiting, stop_returned,
                   enqueued, delivered>>
    /\ UNCHANGED nonStreamVars

\* events(), line 83 on an empty queue: the consumer waits in queue.get()
EventsWait ==
    /\ Running("consumer")
    /\ \/ cstate = "run" /\ events_continue
       \/ cstate = "get_woken"
    /\ queue = <<>>
    /\ cstate' = "get"
    /\ getter_waiting' = TRUE
    /\ ready' = Tail(ready)
    /\ UNCHANGED <<queue, putters, stop_flag, tasks, lstate, held, must_cancel,
                   sent, sstate, waiting, stop_returned, enqueued, delivered>>
    /\ UNCHANGED nonStreamVars

\* events(), lines 83-84: an event is taken and handed to the consumer, whose
\* loop body then goes on at once ("run"), waits on I/O ("body"), or leaves
\* the loop ("exit")
Deliver(next) ==
    /\ Running("consumer")
    /\ \/ cstate = "run" /\ events_continue
       \/ cstate = "get_woken"
    /\ queue # <<>>
    /\ LET woken == IF putters # <<>> THEN <<Head(putters)>> ELSE <<>>
       IN  /\ delivered' = Append(delivered, get_nowait(queue))
           /\ queue' = Tail(queue)
           /\ putters' = IF putters # <<>> THEN Tail(putters) ELSE putters
           /\ lstate' = IF putters # <<>>
                        THEN [lstate EXCEPT ![Head(putters)] = "put_woken"]
                        ELSE lstate
           /\ cstate' = next
           /\ ready' = IF next = "body"
                       THEN Tail(ready) \o woken
                       ELSE <<"consumer">> \o Tail(ready) \o woken
    /\ UNCHANGED <<getter_waiting, stop_flag, tasks, held, must_cancel, sent,
                   sstate, waiting, stop_returned, enqueued>>

\* the consumer is any loop over events()
EventsDeliver ==
    /\ \E next \in {"run", "body", "exit"} : Deliver(next)
    /\ UNCHANGED nonStreamVars

\* the I/O the loop body waited for completes
BodyResume ==
    /\ cstate = "body"
    /\ \E next \in {"run", "exit"} :
         cstate' = next
    /\ ready' = Append(ready, "consumer")
    /\ UNCHANGED <<queue, putters, getter_waiting, stop_flag, tasks, lstate, held,
                   must_cancel, sent, sstate, waiting, stop_returned, enqueued,
                   delivered>>
    /\ UNCHANGED nonStreamVars

\* another task is about to call stop()
StopperWake ==
    /\ sstate = "idle"
    /\ tasks # <<>>
    /\ sstate' = "scheduled"
    /\ ready' = Append(ready, "stopper")
    /\ UNCHANGED <<queue, putters, getter_waiting, stop_flag, tasks, lstate, held,
                   must_cancel, sent, cstate, waiting, stop_returned, enqueued,
                   delivered>>
    /\ UNCHANGED nonStreamVars

CallerState(c, st) ==
    IF c = "consumer"
    THEN cstate' = st /\ UNCHANGED sstate
    ELSE sstate' = st /\ UNCHANGED cstate

\* stop(), lines 52-57: await the next task that is not done; with none left,
\* clear _tasks and return
AwaitTasks(c) ==
    IF pending_tasks = <<>>
    THEN /\ tasks' = <<>>
         /\ stop_returned' = stop_returned \cup {c}
         /\ CallerState(c, "ended")
         /\ UNCHANGED waiting
    ELSE /\ waiting' = [waiting EXCEPT ![c] = Head(pending_tasks)]
         /\ CallerState(c, "stop_wait")
         /\ UNCHANGED <<tasks, stop_returned>>

\* stop(), lines 49-51, up to its first await
StopCall(c) ==
    /\ Running(c)
    /\ \/ c = "consumer" /\ cstate = "exit"
       \/ c = "stopper" /\ sstate = "scheduled"
    /\ stop_flag' = TRUE
    /\ must_cancel' = [k \in Listeners |->
                          must_cancel[k] \/ (k \in {tasks[i] : i \in DOMAIN tasks}
                                             /\ lstate[k] # "done")]
    /\ putters' = SelectSeq(putters, LAMBDA k : k \notin {tasks[i] : i \in DOMAIN tasks})
    /\ ready' = Tail(ready) \o SelectSeq(tasks, LAMBDA k : lstate[k] \in {"recv", "put"}
                                                           /\ ~must_cancel[k])
    /\ AwaitTasks(c)
    /\ UNCHANGED <<queue, getter_waiting, lstate, held, sent, enqueued, delivered>>
    /\ UNCHANGED nonStreamVars

\* stop() resumes when the task it awaited is done
StopResume(c) ==
    /\ Running(c)
    /\ \/ c = "consumer" /\ cstate = "stop_wait"
       \/ c = "stopper" /\ sstate = "stop_wait"
    /\ ready' = Tail(ready)
    /\ AwaitTasks(c)
    /\ UNCHANGED <<queue, putters, getter_waiting, stop_flag, lstate, held,
                   must_cancel, sent, enqueued, delivered>>
    /\ UNCHANGED nonStreamVars

StreamNext ==
    \/ Start
    \/ \E k \in Listeners : ListenerStart(k)
    \/ \E k \in Listeners : Arrive(k)
    \/ \E k \in Listeners : ListenerCancelled(k)
    \/ \E k \in Listeners : ListenerFault(k)
    \/ \E k \in Listeners : ListenerBreak(k)
    \/ \E k \in Listeners : ListenerPut(k)
    \/ EventsEnd
    \/ EventsWait
    \/ EventsDeliver
    \/ BodyResume
    \/ StopperWake
    \/ \E c \in Callers : StopCall(c)
    \/ \E c \in Callers : StopResume(c)

(***************************************************************************)
(* Functions called on their own: RiskManager.size_position and            *)
(* BinanceFuturesClient.place_order, for inputs no engine cycle produces   *)
(***************************************************************************)
NoCall ==
    [fn |-> "none"]

Pending ==
    [status |-> "pending"]

SizingDirections ==
    {"long", "short", "flat", ""}

SizingPrices ==
    {R(-100), R(0), R(100), R(1000)}

SizingAtrs ==
    {R(-10), R(0), R(10), R(1000)}

OrderQuantities ==
    {R(0), Rat(123456, 1000000), Rat(1, 200), Rat(1, 20), Rat(127, 100), Rat(-1, 2)}

OrderTypes ==
    {"MARKET", "LIMIT", "STOP_MARKET"}

PureCalls ==
    [fn : {"size_position"}, price : SizingPrices, atr : SizingAtrs,
     direction : SizingDirections]
    \cup
    [fn : {"place_order"}, quantity : OrderQuantities, order_type : OrderTypes]

InitPure ==
    /\ pure_call = NoCall
    /\ pure_result = Pending

\* a caller has its arguments ready
PureCall ==
    /\ pure_call = NoCall \/ pure_result # Pending
    /\ pure_call' \in PureCalls
    /\ pure_result' = Pending
    /\ UNCHANGED <<engineVars, streamVars, loopVars, flowVars>>

\* RiskManager.size_position(price, volatility, direction)
ApplySizePosition ==
    /\ pure_call.fn = "size_position"
    /\ pure_result = Pending
    /\ pure_result' = [status |-> "done",
                       value |-> size_position(pure_call.price, pure_call.atr,
                                               pure_call.direction)]
    /\ UNCHANGED <<pure_call, engineVars, streamVars, loopVars, flowVars>>

\* BinanceFuturesClient.place_order(order): the filters fetched are cached
ApplyPlaceOrder ==
    /\ pure_call.fn = "place_order"
    /\ pure_result = Pending
    /\ \E info_ok \in BOOLEAN, exchange_ok \in BOOLEAN :
         LET order == OrderRequest("BUY", pure_call.quantity, pure_call.order_type,
                                   IF pure_call.order_type = "STOP_MARKET"
                                   THEN R(101) ELSE NoneNum,
                                   FALSE, "NONE")
             res   == place_order(order, info_ok, exchange_ok)
         IN  /\ pure_result' = [status |-> "done", value |-> res]
             /\ symbol_filters' = res.cache
    /\ UNCHANGED <<positions, max_positions, leverage_synced, dual_side_position,
                   fixed_cost, client_dual_position_mode, account_dual,
                   pc, decision, price, volatility, sizing, report, outcome,
                   requests, orders, positions_at_call, flags_at_call,
                   can_open_result, request_count, driver, loop, exchange_position,
                   exchange_filters>>
    /\ UNCHANGED <<pure_call, streamVars, loopVars, flowVars>>

PureNext ==
    \/ PureCall
    \/ ApplySizePosition
    \/ ApplyPlaceOrder

vars ==
    <<engineVars, streamVars, pureVars, loopVars, flowVars>>

\* OrderFlowAnalyzer.__init__, lines 21-22
InitFlow ==
    /\ of_trades = <<>>
    /\ of_liquidations = <<>>
    /\ trade_log = <<>>
    /\ liquidation_log = <<>>

\* main.py, lines 87-91, before the first event
InitLoop ==
    /\ run_once \in BOOLEAN
    /\ cached_klines = <<>>
    /\ of_buffer = <<>>
    /\ handled = <<>>
    /\ calls = <<>>

Init ==
    InitEngine /\ InitStream /\ InitPure /\ InitLoop /\ InitFlow /\ ~run_once
    /\ exchange_filters = ExchangeFilters

Next ==
    EngineNext

Spec ==
    Init /\ [][Next]_vars

\* the stream beside one engine that is not called
StreamInit ==
    /\ InitStream
    /\ InitEngine
    /\ exchange_filters = ExchangeFilters
    /\ max_positions = 1
    /\ fixed_cost = R(0)
    /\ ~account_dual
    /\ driver = "main"
    /\ InitPure
    /\ InitLoop
    /\ InitFlow
    /\ ~run_once

StreamSpec ==
    StreamInit /\ [][StreamNext]_vars

\* the steps the event loop takes on its own: the task at the head of the
\* ready queue runs, a pending I/O of the loop body completes.  Messages of
\* the exchange (Arrive) and a stop() by another task (StopperWake) are the
\* environment's and may never come.
EventLoopStep ==
    \/ Start
    \/ \E k \in Listeners : ListenerStart(k)
    \/ \E k \in Listeners : ListenerCancelled(k)
    \/ \E k \in Listeners : ListenerFault(k)
    \/ \E k \in Listeners : ListenerBreak(k)
    \/ \E k \in Listeners : ListenerPut(k)
    \/ EventsEnd
    \/ EventsWait
    \/ EventsDeliver
    \/ BodyResume
    \/ \E c \in Callers : StopCall(c)
    \/ \E c \in Callers : StopResume(c)

\* the stream under an event loop that keeps running its ready tasks
LiveStreamSpec ==
    StreamInit /\ [][StreamNext]_vars /\ WF_vars(EventLoopStep)

\* the functions beside an engine and a stream that are not run
PureInit ==
    /\ InitStream
    /\ InitEngine
    /\ exchange_filters = ExchangeFilters
    /\ max_positions = 1
    /\ ~account_dual
    /\ driver = "direct"
    /\ InitPure
    /\ InitLoop
    /\ InitFlow
    /\ ~run_once

PureSpec ==
    PureInit /\ [][PureNext]_vars

(***************************************************************************)
(* RiskManager.size_position for any account (specification SizingSpec):   *)
(* the call is drawn at the start and applied once                         *)
(***************************************************************************)
\* an engine, a stream and a loop that are not run
Idle ==
    /\ InitStream
    /\ InitEngine
    /\ exchange_filters = ExchangeFilters
    /\ max_positions = 1
    /\ fixed_cost = R(0)
    /\ ~account_dual
    /\ driver = "direct"
    /\ InitLoop
    /\ InitFlow
    /\ ~run_once

\* one engine, driven call by call, on an instrument whose filters are
\* either of FilterInputs
FilterInit ==
    /\ InitStream
    /\ InitEngine
    /\ max_positions = 1
    /\ fixed_cost = R(0)
    /\ ~account_dual
    /\ driver = "direct"
    /\ InitPure
    /\ InitLoop
    /\ InitFlow
    /\ ~run_once

FilterSpec ==
    FilterInit /\ [][EngineNext]_vars

BalanceInputs ==
    {R(-10000), R(0), R(10000)}

LeverageInputs ==
    {-5, 0, 5}

RiskPercInputs ==
    {Rat(-1, 100), R(0), Rat(1, 100), R(2)}

AccountFixedCosts ==
    {R(-50), R(0), R(50)}

AccountAtrs ==
    {R(-10), R(0), R(10), R(100)}

SizingCalls ==
    [fn : {"RiskManager.size_position"},
     quote_balance : BalanceInputs, leverage : LeverageInputs,
     risk_per_trade_pct : RiskPercInputs, fixed_cost : AccountFixedCosts,
     price : SizingPrices, atr : AccountAtrs, direction : SizingDirections]

SizingInit ==
    /\ Idle
    /\ pure_call \in SizingCalls
    /\ pure_result = Pending

\* RiskManager(...).size_position(price, volatility, direction)
ApplySizing ==
    /\ pure_call.fn = "RiskManager.size_position"
    /\ pure_result = Pending
    /\ pure_result' = [status |-> "done",
                       value |-> size_position_of(
                                     RiskManager(pure_call.quote_balance,
                                                 pure_call.leverage,
                                                 pure_call.risk_per_trade_pct,
                                                 pure_call.fixed_cost),
                                     pure_call.price, pure_call.atr,
                                     pure_call.direction)]
    /\ UNCHANGED <<pure_call, engineVars, streamVars, loopVars, flowVars>>

SizingNext ==
    ApplySizing

SizingSpec ==
    SizingInit /\ [][SizingNext]_vars

(***************************************************************************)
(* SignalEngine.evaluate (signals/signal_engine.py; specification          *)
(* SignalSpec): the arguments are drawn at the start and evaluated once    *)
(***************************************************************************)
WeightKeys ==
    {"trend_score_weight", "momentum_score_weight", "orderflow_score_weight",
     "liquidity_score_weight"}

\* the weights dict given to the engine: without keys, or with every key
WeightInputs ==
    {[k \in {} |-> R(0)],
     [k \in WeightKeys |-> Rat(1, 2)],
     [k \in WeightKeys |-> IF k = "trend_score_weight" THEN Rat(2, 5)
                           ELSE IF k = "momentum_score_weight" THEN Rat(1, 4)
                           ELSE IF k = "orderflow_score_weight" THEN Rat(1, 5)
                           ELSE Rat(3, 20)]}

TrendScores ==
    {R(-1), R(0), Rat(1, 2), R(1)}

MomentumScores ==
    {R(-1), R(0), R(1)}

TechnicalSignals ==
    {"long", "short", "neutral"}

Imbalances ==
    {R(-1), Rat(-3, 20), R(0), Rat(3, 20), Rat(1, 5), R(1)}

LiquidationPressures ==
    {R(-1), R(0), R(1)}

AtrPcts ==
    {R(-4), R(0), R(3), R(4)}

EvaluateCalls ==
    [fn : {"SignalEngine.evaluate"}, weights : WeightInputs,
     trend_score : TrendScores, momentum_score : MomentumScores,
     signal : TechnicalSignals, imbalance : Imbalances,
     liquidation_pressure : LiquidationPressures,
     structure_break : BOOLEAN, atr_pct : AtrPcts]

\* dict.get(key, default)
get(weights, key, default) ==
    IF key \in DOMAIN weights THEN weights[key] ELSE default

RAbs(a) ==
    IF RLt(a, R(0)) THEN RSub(R(0), a) ELSE a

RMin(a, b) ==
    IF RLt(b, a) THEN b ELSE a

\* lines 31-44: the weighted sum of the components
composite(call) ==
    LET trend_weight    == get(call.weights, "trend_score_weight", Rat(2, 5))
        momentum_weight == get(call.weights, "momentum_score_weight", Rat(1, 4))
        of_weight       == get(call.weights, "orderflow_score_weight", Rat(1, 5))
        liq_weight      == get(call.weights, "liquidity_score_weight", Rat(3, 20))
        trend_component    == RMul(call.trend_score, trend_weight)
        momentum_component == RMul(call.momentum_score, momentum_weight)
        flow_component     == RMul(call.imbalance, of_weight)
        liquidation_component ==
            RAdd(RMul(RSub(R(0), call.liquidation_pressure), RDiv(liq_weight, R(2))),
                 IF call.structure_break THEN Rat(1, 2) ELSE R(0))
    IN  RAdd(RAdd(RAdd(trend_component, momentum_component), flow_component),
             liquidation_component)

\* mutant: the threshold itself counts
exceeds_or_equals(a, threshold) ==
    RLeq(threshold, a)

\* lines 64 and 66: a strict comparison with the threshold
exceeds(a, threshold) ==
    RLt(threshold, a)

\* lines 63-67
direction_of(c) ==
    IF exceeds(c, Rat(1, 4)) THEN "long"
    ELSE IF exceeds(RSub(R(0), c), Rat(1, 4)) THEN "short"
    ELSE "flat"

\* mutant: the structure-break notice is appended after the order-flow string
reasons_notice_third(call) ==
    <<IF call.signal = "long" THEN "Momentum e tendencia favorecem compra"
      ELSE IF call.signal = "short" THEN "Momentum e tendencia favorecem venda"
      ELSE "Sinal tecnico neutro">>
    \o <<IF RLt(Rat(3, 20), call.imbalance) THEN "Fluxo comprador agressivo"
         ELSE IF RLt(call.imbalance, Rat(-3, 20)) THEN "Fluxo vendedor agressivo"
         ELSE "Order flow neutro">>
    \o (IF call.structure_break THEN <<"Structure break detectada">> ELSE <<>>)
    \o (IF RLt(R(3), RAbs(call.atr_pct)) THEN <<"Alta volatilidade relativa">>
        ELSE <<>>)

\* lines 29-61: the rationale strings in the order they are appended
reasons_of(call) ==
    (IF call.structure_break THEN <<"Structure break detectada">> ELSE <<>>)
    \o <<IF call.signal = "long" THEN "Momentum e tendencia favorecem compra"
         ELSE IF call.signal = "short" THEN "Momentum e tendencia favorecem venda"
         ELSE "Sinal tecnico neutro">>
    \o <<IF RLt(Rat(3, 20), call.imbalance) THEN "Fluxo comprador agressivo"
         ELSE IF RLt(call.imbalance, Rat(-3, 20)) THEN "Fluxo vendedor agressivo"
         ELSE "Order flow neutro">>
    \o (IF RLt(R(3), RAbs(call.atr_pct)) THEN <<"Alta volatilidade relativa">>
        ELSE <<>>)

SignalDecision(symbol, direction, confidence, reasons) ==
    [symbol |-> symbol, direction |-> direction, confidence |-> confidence,
     reasons |-> reasons]

\* SignalEngine.evaluate(symbol, technical, order_flow, volatility)
evaluate(call) ==
    SignalDecision(Symbol, direction_of(composite(call)),
                   RMin(R(1), RMax(R(0), RAbs(composite(call)))),
                   reasons_of(call))

SignalInit ==
    /\ Idle
    /\ pure_call \in EvaluateCalls
    /\ pure_result = Pending

\* one evaluation: it writes nothing but its result
ApplyEvaluate ==
    /\ pure_call.fn = "SignalEngine.evaluate"
    /\ pure_result = Pending
    /\ pure_result' = [status |-> "done", value |-> evaluate(pure_call)]
    /\ UNCHANGED <<pure_call, engineVars, streamVars, loopVars, flowVars>>

SignalNext ==
    ApplyEvaluate

SignalSpec ==
    SignalInit /\ [][SignalNext]_vars

(***************************************************************************)
(* OrderFlowAnalyzer (analysis/order_flow.py; specification FlowSpec)      *)
(***************************************************************************)
\* bound standing for the capacity of the two deques (maxlen = 120 by default)
DequeMaxlen ==
    2

\* bound on the update calls of one behaviour
MaxUpdates ==
    3

TradeQuantities ==
    {R(0), R(1), R(2)}

LiquidationQuantities ==
    {R(0), R(2)}

LiquidationSides ==
    {"BUY", "buy", "SELL"}

\* str.upper() on the sides the exchange and the loop use
upper(side) ==
    IF side = "buy" THEN "BUY" ELSE IF side = "sell" THEN "SELL" ELSE side

\* mutant: a full deque refuses the new entry
deque_append_keep_oldest(d, x, maxlen) ==
    IF Len(d) >= maxlen THEN d ELSE Append(d, x)

\* collections.deque(maxlen=...).append: a full deque drops its leftmost entry
deque_append(d, x, maxlen) ==
    IF maxlen = 0 THEN <<>>
    ELSE IF Len(d) >= maxlen THEN Append(Tail(d), x)
    ELSE Append(d, x)

\* sum(q for ... in entries if the flag is `flag`)
RECURSIVE volume(_, _)
volume(entries, flag) ==
    IF entries = <<>> THEN R(0)
    ELSE IF Head(entries).flag = flag
    THEN RAdd(Head(entries).quantity, volume(Tail(entries), flag))
    ELSE volume(Tail(entries), flag)

\* mutant: the difference is not scaled by the total
share_unscaled(difference, total) ==
    difference

\* lines 39 and 44: difference / total if total else 0.0
share(difference, total) ==
    IF total # R(0) THEN RDiv(difference, total) ELSE R(0)

\* snapshot(), lines 34-52
snapshot(trades, liquidations) ==
    LET buy_volume  == volume(trades, TRUE)
        sell_volume == volume(trades, FALSE)
        delta       == RSub(buy_volume, sell_volume)
        long_liq    == volume(liquidations, TRUE)
        short_liq   == volume(liquidations, FALSE)
    IN  [buy_volume |-> buy_volume,
         sell_volume |-> sell_volume,
         delta |-> delta,
         imbalance |-> share(delta, RAdd(buy_volume, sell_volume)),
         liquidation_pressure |-> share(RSub(short_liq, long_liq),
                                        RAdd(long_liq, short_liq))]

Returned_snapshot(trades, liquidations) ==
    [status |-> "done", value |-> snapshot(trades, liquidations)]

\* update_from_trade(price, quantity, is_buyer_maker), lines 24-27
UpdateFromTrade ==
    /\ Len(trade_log) + Len(liquidation_log) < MaxUpdates
    /\ \E quantity \in TradeQuantities, is_buyer_maker \in BOOLEAN :
         LET entry == [price |-> R(100), quantity |-> quantity,
                       flag |-> ~is_buyer_maker]
         IN  /\ of_trades' = deque_append(of_trades, entry, DequeMaxlen)
             /\ trade_log' = Append(trade_log, entry)
    /\ pure_call' = [fn |-> "update_from_trade"]
    /\ pure_result' = Returned_snapshot(of_trades', of_liquidations)
    /\ UNCHANGED <<of_liquidations, liquidation_log>>
    /\ UNCHANGED <<engineVars, streamVars, loopVars>>

\* update_from_liquidation(quantity, side), lines 29-32
UpdateFromLiquidation ==
    /\ Len(trade_log) + Len(liquidation_log) < MaxUpdates
    /\ \E quantity \in LiquidationQuantities, side \in LiquidationSides :
         LET entry == [quantity |-> quantity, flag |-> upper(side) = "BUY"]
         IN  /\ of_liquidations' = deque_append(of_liquidations, entry, DequeMaxlen)
             /\ liquidation_log' = Append(liquidation_log, entry)
    /\ pure_call' = [fn |-> "update_from_liquidation"]
    /\ pure_result' = Returned_snapshot(of_trades, of_liquidations')
    /\ UNCHANGED <<of_trades, trade_log>>
    /\ UNCHANGED <<engineVars, streamVars, loopVars>>

\* snapshot() called on its own
Snapshot ==
    /\ pure_call' = [fn |-> "snapshot"]
    /\ pure_result' = Returned_snapshot(of_trades, of_liquidations)
    /\ UNCHANGED flowVars
    /\ UNCHANGED <<engineVars, streamVars, loopVars>>

FlowNext ==
    \/ UpdateFromTrade
    \/ UpdateFromLiquidation
    \/ Snapshot

FlowInit ==
    /\ Idle
    /\ InitPure

FlowSpec ==
    FlowInit /\ [][FlowNext]_vars

(***************************************************************************)
(* The orchestration loop (_handle_events of main.py): the one consumer of *)
(* the stream's events, which awaits the engine for every closed candle    *)
(***************************************************************************)
\* bound on the configured data_lookback the model explores
DataLookback ==
    2

\* bound on the messages the three exchange streams produce together while
\* the loop runs
LoopMsgs ==
    2

\* a candle of the series: its open time and the kline event that brought it
\* (0 for a candle of the history fetch)
Candle(t, n) ==
    [t |-> t, n |-> n]

\* what fetch_klines answers for `limit`: at most that many candles, oldest first
HistoryKlines(limit) ==
    {[i \in 1..len |-> Candle(i, 0)] : len \in 1..limit}

\* a kline payload without a "k" object (or with an empty one)
NoKline ==
    [present |-> FALSE, x |-> FALSE, t |-> 0]

\* the "k" object of a kline payload: the candle in progress or the next one,
\* closed ("x") or not
KlineObjects(last_t) ==
    {NoKline} \cup [present : {TRUE}, x : BOOLEAN, t : {last_t, last_t + 1}]

\* the price and the ATR the analysis of the series hands to the engine
LoopPrice ==
    R(100)

LoopAtr ==
    R(10)

last_open_time(cached) ==
    IF cached = <<>> THEN 0 ELSE cached[Len(cached)].t

\* mutant: any kline that carries a "k" object starts a cycle
starts_cycle_unclosed(event_type, kline) ==
    event_type = "kline" /\ kline.present

\* main.py lines 120-126: the events that reach the analysis and the engine
starts_cycle(event_type, kline) ==
    event_type = "kline" /\ kline.present /\ kline.x

\* mutant: the series is never trimmed
update_cached_klines_untrimmed(cached, candle, lookback) ==
    IF cached # <<>> /\ cached[Len(cached)].t = candle.t
    THEN [cached EXCEPT ![Len(cached)] = candle]
    ELSE Append(cached, candle)

\* main.py lines 141-146: replace the last candle or append, then trim
update_cached_klines(cached, candle, lookback) ==
    LET merged == IF cached # <<>> /\ cached[Len(cached)].t = candle.t
                  THEN [cached EXCEPT ![Len(cached)] = candle]
                  ELSE Append(cached, candle)
    IN  IF Len(merged) > lookback THEN Tail(merged) ELSE merged

\* mutant: the loop does not wait for the call it started
call_done_detached(p) ==
    TRUE

\* main.py line 154: the await of process_signal resumes when the call is over
call_done(p) ==
    p = "idle"

Handled(event, kline) ==
    [event |-> event, kline |-> kline]

\* lines 95-100: the history becomes the candle series
HandleBootstrap ==
    /\ queue # <<>>
    /\ get_nowait(queue).event_type = "bootstrap_klines"
    /\ Deliver("run")
    /\ cached_klines' \in HistoryKlines(DataLookback)
    /\ handled' = Append(handled, Handled(get_nowait(queue), NoKline))
    /\ UNCHANGED <<run_once, of_buffer, calls>>
    /\ UNCHANGED <<engineVars, pureVars, flowVars>>

\* lines 102-109: a trade goes to the order-flow buffers (deques of 120
\* entries, more than the streams produce here)
HandleTrade ==
    /\ queue # <<>>
    /\ get_nowait(queue).event_type = "trade"
    /\ Deliver("run")
    /\ of_buffer' = Append(of_buffer, [kind |-> "trade", n |-> get_nowait(queue).n])
    /\ handled' = Append(handled, Handled(get_nowait(queue), NoKline))
    /\ UNCHANGED <<run_once, cached_klines, calls>>
    /\ UNCHANGED <<engineVars, pureVars, flowVars>>

\* lines 111-118: a liquidation with a quantity goes to the order-flow buffers
HandleLiquidation ==
    /\ queue # <<>>
    /\ get_nowait(queue).event_type = "liquidation"
    /\ Deliver("run")
    /\ \E has_qty \in BOOLEAN :
         of_buffer' = IF has_qty
                      THEN Append(of_buffer, [kind |-> "liquidation",
                                              n |-> get_nowait(queue).n])
                      ELSE of_buffer
    /\ handled' = Append(handled, Handled(get_nowait(queue), NoKline))
    /\ UNCHANGED <<run_once, cached_klines, calls>>
    /\ UNCHANGED <<engineVars, pureVars, flowVars>>

\* lines 120-154: a closed kline updates the series, is analysed, and the
\* decision is handed to process_signal, which the loop awaits
HandleKline ==
    /\ queue # <<>>
    /\ get_nowait(queue).event_type = "kline"
    /\ \E kline \in KlineObjects(last_open_time(cached_klines)) :
         LET event == get_nowait(queue)
         IN  /\ handled' = Append(handled, Handled(event, kline))
             /\ IF starts_cycle(event.event_type, kline)
                THEN /\ cached_klines' = update_cached_klines(cached_klines,
                                             Candle(kline.t, event.n), DataLookback)
                     /\ calls' = Append(calls, event.n)
                     /\ \E direction \in Directions :
                          BeginCall(direction, LoopPrice, LoopAtr)
                     /\ Deliver("body")
                ELSE /\ Deliver("run")
                     /\ UNCHANGED <<cached_klines, calls, engineVars>>
    /\ UNCHANGED <<run_once, of_buffer, pureVars, flowVars>>

\* lines 154-163: process_signal has returned (next event, or break with
\* --once) or raised (the exception leaves the loop and the `async with`)
CycleEnd ==
    /\ cstate = "body"
    /\ call_done(pc)
    /\ cstate' = IF outcome = "returned" /\ ~run_once THEN "run" ELSE "exit"
    /\ ready' = Append(ready, "consumer")
    /\ UNCHANGED <<queue, putters, getter_waiting, stop_flag, tasks, lstate, held,
                   must_cancel, sent, sstate, waiting, stop_returned, enqueued,
                   delivered>>
    /\ UNCHANGED nonStreamVars

\* the exchange streams' answers while the loop runs, within LoopMsgs
LoopArrive(k) ==
    /\ TotalSent < LoopMsgs
    /\ Arrive(k)

LoopListenerPut(k) ==
    /\ ListenerPut(k)
    /\ sent'["kline"] + sent'["trade"] + sent'["liquidation"] <= LoopMsgs

\* no task of main.py calls stop() but the loop itself, on leaving
LoopNext ==
    \/ Start
    \/ \E k \in Listeners : ListenerStart(k)
    \/ \E k \in Listeners : LoopArrive(k)
    \/ \E k \in Listeners : ListenerCancelled(k)
    \/ \E k \in Listeners : ListenerFault(k)
    \/ \E k \in Listeners : ListenerBreak(k)
    \/ \E k \in Listeners : LoopListenerPut(k)
    \/ EventsWait
    \/ HandleBootstrap
    \/ HandleTrade
    \/ HandleLiquidation
    \/ HandleKline
    \/ EnsureLeverage
    \/ Dispatch
    \/ ClosePosition
    \/ OpenPosition
    \/ PlaceStopOrder
    \/ PlaceTakeProfitOrder
    \/ CycleEnd
    \/ StopCall("consumer")
    \/ StopResume("consumer")

LoopInit ==
    /\ InitStream
    /\ InitEngine
    /\ exchange_filters = ExchangeFilters
    /\ max_positions = 1
    /\ fixed_cost = R(0)
    /\ ~account_dual
    /\ driver = "main"
    /\ InitPure
    /\ InitLoop
    /\ InitFlow

LoopSpec ==
    LoopInit /\ [][LoopNext]_vars

(***************************************************************************)
(* Properties of the Trade Engine (specification Spec)                     *)
(***************************************************************************)
Finished ==
    pc = "idle" /\ outcome # "none"

Returned ==
    pc = "idle" /\ outcome = "returned"

\* an exception left the last call
Aborted ==
    pc = "idle" /\ outcome \notin {"none", "returned"}

HadPosition ==
    has_position(positions_at_call, Symbol)

OpposingSide(direction) ==
    IF direction = "long" THEN "SELL" ELSE "BUY"

OpeningSide(direction) ==
    IF direction = "long" THEN "BUY" ELSE "SELL"

SideTag(direction) ==
    IF direction = "long" THEN "LONG" ELSE "SHORT"

\* C1: in every reachable state of one engine, also after calls aborted by a
\* failing gateway order, the portfolio holds at most one Position whose
\* symbol is the tracked symbol.
C1_AtMostOnePosition ==
    Cardinality({k \in DOMAIN positions : positions[k].symbol = Symbol}) <= 1

\* a position is registered and a later call was aborted by the exchange
C1_Witness ==
    /\ Aborted
    /\ outcome = "rejected"
    /\ has_position(positions, Symbol)
    /\ max_positions = 2

IsOpeningFor(order, direction) ==
    /\ order.order_type = "MARKET"
    /\ order.side = OpeningSide(direction)
    /\ ~order.reduce_only
    /\ order.position_side \in {"NONE", SideTag(direction)}

IsProtection(order) ==
    order.order_type \in {"STOP_MARKET", "TAKE_PROFIT_MARKET"}

Reversing ==
    /\ decision \in {"long", "short"}
    /\ HadPosition
    /\ positions_at_call[Symbol].direction # decision

\* C2: a long or short decision against an open position of the opposite
\* direction sends no order but the one closing that position (no opening or
\* protection order for the new direction), and when the call returns it
\* reports a reversal and the portfolio holds no position for the symbol.
C2_ReversalClosesOnly ==
    Reversing =>
        /\ pc \in {"idle", "ensure_leverage", "dispatch", "close"}
        /\ Len(orders) <= 1
        /\ \A i \in DOMAIN orders :
             /\ ~IsOpeningFor(orders[i].request, decision)
             /\ ~IsProtection(orders[i].request)
             /\ orders[i].request.side = OpposingSide(positions_at_call[Symbol].direction)
             /\ orders[i].request.quantity = positions_at_call[Symbol].quantity
        /\ Returned =>
             /\ report = ExecutionReport(FALSE, TRUE, "Reversao de posicao")
             /\ ~has_position(positions, Symbol)
             /\ DOMAIN positions = {}
             /\ Len(orders) = 1
             /\ orders[1].outcome = "accepted"

C2_Witness ==
    /\ Reversing
    /\ Returned
    /\ report.closed
    /\ DOMAIN positions = {}

\* C3: a flat decision with no position changes nothing: portfolio and both
\* cached flags are as before the call and no request went to the gateway,
\* also on the first call of a fresh engine.
C3_FlatIsNoOp ==
    (Finished /\ decision = "flat" /\ ~HadPosition) =>
        /\ positions = positions_at_call
        /\ <<leverage_synced, dual_side_position>> = flags_at_call
        /\ requests = <<>>

FlatClose ==
    /\ decision = "flat"
    /\ HadPosition
    /\ Finished
    /\ outcome # "change_leverage_failed"

ClosingOrderShape ==
    /\ Len(orders) = 1
    /\ orders[1].request.side = OpposingSide(positions_at_call[Symbol].direction)
    /\ orders[1].request.quantity = positions_at_call[Symbol].quantity
    /\ orders[1].request.order_type = "MARKET"

C5_OpenSendsThreeOrders ==
    /\ pc \in {"open", "stop", "take_profit"} => ~has_position(positions, Symbol)
    /\ (Finished /\ (report.opened \/ (has_position(positions, Symbol) /\ ~HadPosition))) =>
        /\ Returned
        /\ report = ExecutionReport(TRUE, FALSE, "Posicao aberta")
        /\ decision \in {"long", "short"}
        /\ ~HadPosition
        /\ has_position(positions, Symbol)
        /\ positions[Symbol].direction = decision
        /\ Len(orders) = 3
        /\ \A i \in 1..3 : orders[i].outcome = "accepted"
        /\ IsOpeningFor(orders[1].request, decision)
        /\ orders[2].request.order_type = "STOP_MARKET"
        /\ orders[3].request.order_type = "TAKE_PROFIT_MARKET"
        /\ \A i \in 2..3 : orders[i].request.side = OpposingSide(decision)

C5_Witness ==
    /\ Returned
    /\ report.opened
    /\ Len(orders) = 3
    /\ has_position(positions, Symbol)

\* C6: when normalization rejects an order of a cycle (InvalidOrder), no
\* position is registered, the exchange has accepted no opening order in that
\* cycle, and the event loop of _handle_events goes on with the next events.
C6_InvalidOrderSkipsCycle ==
    (driver = "main" /\ Aborted /\ outcome = "invalid") =>
        /\ positions = positions_at_call
        /\ \A i \in DOMAIN orders : orders[i].outcome # "accepted"
        /\ loop = "running"

NoOpMessages ==
    {"Mantendo posicao atual", "Limite de posicoes atingido",
     "Tamanho de posicao invalido"}

\* C7: a call that reports holding (a position of the decision's direction
\* is open), limit reached (no position, and the portfolio is at its limit)
\* or invalid size (sizing quantity <= 0) has sent no order and has left the
\* portfolio as it was.
C7_NoOpReportsChangeNothing ==
    (Returned /\ report.message \in NoOpMessages) =>
        /\ orders = <<>>
        /\ \A i \in DOMAIN requests : requests[i] = "change_leverage"
        /\ positions = positions_at_call
        /\ report = ExecutionReport(FALSE, FALSE, report.message)
        /\ decision \in {"long", "short"}
        /\ report.message = "Mantendo posicao atual" =>
             HadPosition /\ positions_at_call[Symbol].direction = decision
        /\ report.message = "Limite de posicoes atingido" =>
             ~HadPosition /\ Cardinality(DOMAIN positions_at_call) >= max_positions
        /\ report.message = "Tamanho de posicao invalido" =>
             ~HadPosition /\ RLeq(sizing.quantity, R(0))

\* a call whose decision has the direction of the open position has returned
\* the holding report
C7_Witness ==
    /\ Returned
    /\ report.message = "Mantendo posicao atual"
    /\ has_position(positions, Symbol)
    /\ leverage_synced

\* C8: the portfolio never holds more than max_positions positions, and a
\* position is added only in a cycle in which can_open answered true (with
\* max_positions = 0 none is ever added).
C8_WithinMaxPositions ==
    /\ Cardinality(DOMAIN positions) <= max_positions
    /\ (DOMAIN positions \ DOMAIN positions_at_call) # {} => can_open_result = "True"
    /\ max_positions = 0 => DOMAIN positions = {}

C8_Witness ==
    /\ Returned
    /\ report.opened
    /\ Cardinality(DOMAIN positions) = max_positions

\* the requests of the running call that reached the exchange as orders
OrderSent ==
    \E i \in DOMAIN requests : requests[i] = "create_order"

\* C14 as stated: change_leverage is sent at most once in the lifetime of an
\* engine, also when a change_leverage call fails.
C14_LeverageSentAtMostOnce ==
    request_count["change_leverage"] <= 1

\* C14: change_leverage is the first request of a call and is sent only while
\* the engine has not yet had a successful one; after the first success it is
\* never sent again, and no order is sent (nor a position held) before that
\* success.  A failed change_leverage leaves the flag unset, so the next call
\* sends the request again.
C14_LeverageSyncedOnce ==
    /\ [](\A i \in DOMAIN requests : requests[i] = "change_leverage" => i = 1)
    /\ [](~leverage_synced => ~OrderSent /\ orders = <<>> /\ positions = EmptyPortfolio)
    /\ [](request_count["change_leverage"] = 0 => ~leverage_synced)
    /\ [][leverage_synced =>
            /\ leverage_synced'
            /\ request_count'["change_leverage"] = request_count["change_leverage"]]_vars

\* a second call re-sent change_leverage after the first one had failed, and
\* went on to open a position
C14_Witness ==
    /\ request_count["change_leverage"] = 2
    /\ requests # <<>>
    /\ requests[1] = "change_leverage"
    /\ leverage_synced
    /\ Returned
    /\ report.opened

\* C15: get_position_mode is sent at most once per engine, with the first
\* order the engine builds; the answer (False when the query failed) is kept
\* by client and engine and never changes, so no later order queries again.
C15_ModeQueriedOnce ==
    /\ [](request_count["get_position_mode"] <= 1)
    /\ [](dual_side_position = "None" <=> request_count["get_position_mode"] = 0)
    /\ [](dual_side_position = "None" => orders = <<>>)
    /\ [](dual_side_position # "None" => client_dual_position_mode = dual_side_position)
    /\ [](dual_side_position = "True" => account_dual)
    /\ [][dual_side_position # "None" =>
            /\ dual_side_position' = dual_side_position
            /\ client_dual_position_mode' = client_dual_position_mode
            /\ request_count'["get_position_mode"] = request_count["get_position_mode"]]_vars

\* the query failed on an account in dual mode: False was cached, and a later
\* call has closed the position without asking again
C15_Witness ==
    /\ account_dual
    /\ dual_side_position = "False"
    /\ request_count["get_position_mode"] = 1
    /\ Returned
    /\ report.closed
    /\ \A i \in DOMAIN requests : requests[i] # "get_position_mode"

\* the direction of the position an order of the running call is for
OrderDirection ==
    IF HadPosition THEN positions_at_call[Symbol].direction ELSE decision

\* C16: every order the engine has built carries a position-side tag exactly
\* when the cached mode is dual: none in one-way mode, LONG for a long and
\* SHORT for a short position in dual mode (and a tag is never sent on an
\* account that is in one-way mode).
C16_TagOnlyInDualMode ==
    \A i \in DOMAIN orders :
        LET tag == orders[i].request.position_side
        IN  /\ dual_side_position \in {"True", "False"}
            /\ dual_side_position = "False" => tag = "NONE"
            /\ dual_side_position = "True" =>
                 tag = (IF OrderDirection = "long" THEN "LONG" ELSE "SHORT")
            /\ tag # "NONE" => account_dual
            /\ orders[i].outcome \in {"accepted", "rejected"} =>
                 orders[i].sent.position_side = tag

\* in dual mode a short position was opened with three orders tagged SHORT
C16_Witness ==
    /\ dual_side_position = "True"
    /\ decision = "short"
    /\ Len(orders) = 3
    /\ report.opened
    /\ \A i \in DOMAIN orders : orders[i].sent.position_side = "SHORT"

(***************************************************************************)
(* Properties of functions called on their own (specification PureSpec)    *)
(***************************************************************************)
PlaceOrderDone ==
    pure_call.fn = "place_order" /\ pure_result.status = "done"

SizePositionDone ==
    pure_call.fn = "size_position" /\ pure_result.status = "done"

\* the largest multiple of step that is not above v
FloorToStep(v, step) ==
    LET q == RDiv(v, step)
    IN  RMul(R(q.n \div q.d), step)

Transmitted(res) ==
    \E i \in DOMAIN res.reqs : res.reqs[i] = "create_order"

C20_EmptySizingOnGuards ==
    (/\ SizePositionDone
     /\ \/ pure_call.direction \notin {"long", "short"}
        \/ RLeq(pure_call.price, R(0))
        \/ RLeq(RMul(pure_call.atr, Settings.atr_multiplier_sl), R(0))) =>
        LET value == pure_result.value
        IN  /\ value.quantity = R(0)
            /\ value.notional = R(0)
            /\ value.cost = R(0)
            /\ value.stop_loss = R(0)
            /\ value.take_profit = R(0)
            /\ ~value.trailing_active
            /\ value.leverage = Settings.leverage

\* with a fixed cost configured, a long at a positive price and ATR = 0 got
\* the empty sizing
C20_Witness ==
    /\ SizePositionDone
    /\ pure_call.direction = "long"
    /\ pure_call.price = R(100)
    /\ pure_call.atr = R(0)
    /\ fixed_cost = R(50)
    /\ pure_result.value.quantity = R(0)

(***************************************************************************)
(* Properties of the Market Data Stream (specification StreamSpec)         *)
(***************************************************************************)
ListenersTerminated ==
    \A k \in Listeners : lstate[k] \in {"none", "done"}

\* C9: when stop() has returned, every listener task has terminated, and from
\* then on no further event is handed to the consumer of events(), whether or
\* not events are still queued.
C9_StopEndsDelivery ==
    /\ [](stop_returned # {} => ListenersTerminated)
    /\ [][stop_returned # {} => delivered' = delivered]_vars

IsPrefix(a, b) ==
    /\ Len(a) <= Len(b)
    /\ \A i \in DOMAIN a : a[i] = b[i]

\* C10: in every interleaving the events handed to the consumer are a prefix
\* of the events in the order they were enqueued (none reordered, duplicated
\* or skipped: what was enqueued is what was delivered followed by what is
\* queued), and the bootstrap_klines event comes first.
C10_DeliveredInEnqueueOrder ==
    /\ IsPrefix(delivered, enqueued)
    /\ enqueued = delivered \o queue
    /\ \A i, j \in DOMAIN enqueued : enqueued[i] = enqueued[j] => i = j
    /\ enqueued # <<>> => enqueued[1].event_type = "bootstrap_klines"
    /\ delivered # <<>> => delivered[1].event_type = "bootstrap_klines"
    /\ \A i \in DOMAIN delivered : i > 1 => delivered[i].event_type \in Listeners

\* events of two listeners were delivered while a third listener, which had
\* to wait for a free slot of the full queue, is about to put its event
C10_Witness ==
    /\ Len(delivered) = 3
    /\ \E i, j \in DOMAIN delivered :
         /\ delivered[i].event_type = "trade"
         /\ delivered[j].event_type = "kline"
    /\ \E k \in Listeners : lstate[k] = "put_woken"

\* C11: the channel never holds more than maxsize events; a listener with an
\* event in hand keeps it while the channel is full, is woken only by the
\* consumer taking an event, and the event leaves its hands only by being
\* appended to the channel (or by stop() ending the listener); nothing that
\* was enqueued is overwritten or lost: it is delivered or still queued.
C11_BoundedBackpressure ==
    /\ [](Len(queue) <= QueueMaxsize)
    /\ [](enqueued = delivered \o queue)
    /\ [](\A k \in Listeners :
            lstate[k] \in {"put", "put_woken"} =>
                /\ held[k] # NoEvent
                /\ \A i \in DOMAIN enqueued : enqueued[i] # held[k])
    /\ [][\A k \in Listeners :
            /\ (lstate[k] = "put" /\ lstate'[k] = "put_woken") =>
                   /\ full(queue)
                   /\ delivered' = Append(delivered, Head(queue))
            /\ (held[k] # NoEvent /\ held'[k] # held[k]) =>
                   \/ enqueued' = Append(enqueued, held[k])
                   \/ stop_flag]_vars

\* a listener that waited on the full channel has been woken by the consumer
\* taking an event, and has room for its event now
C11_Witness ==
    \E k \in Listeners :
        /\ lstate[k] = "put_woken"
        /\ held[k].event_type = k
        /\ Len(queue) < QueueMaxsize
        /\ delivered # <<>>
        /\ ~stop_flag

\* C12: a payload tagged as an error frame is never enqueued, and the step
\* in which a listener ends on a fault changes nothing else: the other
\* listeners, the channel, the stop flag and the consumer are as before.
C12_FaultEndsOnlyItsListener ==
    /\ [](\A i \in DOMAIN enqueued : enqueued[i].payload.e # "error")
    /\ [](\A k \in Listeners :
            /\ held[k].payload.e # "error"
            /\ lstate[k] = "fault" => held[k] = NoEvent)
    /\ [][\A k \in Listeners :
            (lstate[k] = "fault" /\ lstate'[k] = "done") =>
                /\ \A j \in Listeners \ {k} :
                       /\ lstate'[j] = lstate[j]
                       /\ held'[j] = held[j]
                       /\ must_cancel'[j] = must_cancel[j]
                /\ UNCHANGED <<queue, putters, getter_waiting, stop_flag, tasks,
                               enqueued, delivered, cstate>>]_vars

\* the kline listener has ended on a fault of its first message, the stream
\* is not stopped, and the consumer has received the events of the other two
C12_Witness ==
    /\ lstate["kline"] = "done"
    /\ sent["kline"] = 1
    /\ ~stop_flag
    /\ \A i \in DOMAIN enqueued : enqueued[i].event_type # "kline"
    /\ \E i, j \in DOMAIN delivered :
         /\ delivered[i].event_type = "trade"
         /\ delivered[j].event_type = "liquidation"

(***************************************************************************)
(* Properties of the orchestration loop (specification LoopSpec)           *)
(***************************************************************************)
LastHandled ==
    handled'[Len(handled')]

ClosedKline(h) ==
    h.event.event_type = "kline" /\ h.kline.present /\ h.kline.x

\* C18: after every event the loop has handled the candle series holds at
\* most data_lookback candles; a closed kline with the open time of the last
\* cached candle replaces it and the length stays, any other closed kline is
\* appended, and a series then longer than data_lookback loses its oldest
\* candle; trades, liquidations and unclosed klines leave the series alone
C18_SeriesWithinLookback ==
    [][handled' # handled =>
         /\ Len(cached_klines') <= DataLookback
         /\ LET h      == LastHandled
                candle == Candle(h.kline.t, h.event.n)
                last   == Len(cached_klines)
            IN  IF ClosedKline(h)
                THEN IF cached_klines # <<>> /\ cached_klines[last].t = h.kline.t
                     THEN /\ Len(cached_klines') = last
                          /\ cached_klines'[last] = candle
                          /\ SubSeq(cached_klines', 1, last - 1)
                               = SubSeq(cached_klines, 1, last - 1)
                     ELSE IF last + 1 > DataLookback
                     THEN cached_klines' = Append(Tail(cached_klines), candle)
                     ELSE cached_klines' = Append(cached_klines, candle)
                ELSE h.event.event_type # "bootstrap_klines"
                       => cached_klines' = cached_klines]_vars

\* a full series in which a closed kline has replaced the last candle of the
\* history and a later one has pushed the oldest candle out
C18_Witness ==
    /\ Len(cached_klines) = DataLookback
    /\ cached_klines[1].t > 1
    /\ \E i \in DOMAIN cached_klines :
         cached_klines[i].n > 0 /\ cached_klines[i].t <= DataLookback
    /\ cached_klines[Len(cached_klines)].t = DataLookback + 1

\* the kline events of a history of the loop that were closed candles
ClosedKlineIds(h) ==
    LET closed == SelectSeq(h, LAMBDA e : ClosedKline(e))
    IN  [i \in 1..Len(closed) |-> closed[i].event.n]

\* C17: the process_signal calls of the loop are, one for one and in order,
\* the closed kline events it has consumed; a call begins in the very step
\* that consumes a closed kline and in no other; a bootstrap, trade,
\* liquidation or unclosed kline event starts no call and changes neither the
\* orders sent nor the portfolio, which change only inside a call started by
\* a closed kline
C17_OneCyclePerClosedKline ==
    [][/\ calls' = ClosedKlineIds(handled')
       /\ handled' # handled =>
            IF ClosedKline(LastHandled)
            THEN pc = "idle" /\ pc' = "ensure_leverage"
                 /\ calls' = Append(calls, LastHandled.event.n)
            ELSE UNCHANGED <<pc, calls, positions, orders, requests>>
       /\ (pc = "idle" /\ pc' # "idle") =>
            handled' # handled /\ ClosedKline(LastHandled)
       /\ (positions' # positions \/ Len(requests') > Len(requests)
           \/ Len(orders') > Len(orders)) =>
            /\ pc # "idle"
            /\ handled' = handled
            /\ ClosedKline(handled[Len(handled)])]_vars

\* the loop has consumed the bootstrap, an unclosed kline and a closed kline,
\* and its one cycle has opened a position
C17_Witness ==
    /\ Len(handled) = 3
    /\ Len(calls) = 1
    /\ \E i \in DOMAIN handled :
         handled[i].event.event_type = "kline" /\ ~ClosedKline(handled[i])
    /\ ClosedKline(handled[3])
    /\ has_position(positions, Symbol)
    /\ Len(orders) = 3

\* the state the claim calls shared: rolling buffers, candle series, portfolio
\* and the cached leverage and mode flags
SharedState ==
    <<cached_klines, of_buffer, positions, leverage_synced, dual_side_position,
      client_dual_position_mode>>

\* a step of a listener task: a message received, an event enqueued, or the
\* task moving on (start() and a delivery, which also move listeners, are
\* steps of the consumer)
ListenerStep ==
    /\ cstate # "boot"
    /\ delivered' = delivered
    /\ sent' # sent \/ enqueued' # enqueued \/ lstate' # lstate

\* a step of the consumer that may write shared state: it takes an event, or
\* it is inside the process_signal call it awaits
WritingConsumerStep ==
    \/ delivered' # delivered
    \/ /\ cstate = "body" /\ cstate' = "body" /\ pc # "idle"
       /\ UNCHANGED <<queue, enqueued, sent, lstate, held>>

\* C13: in every interleaving shared state changes only in steps of the
\* consumer; a listener step changes nothing but the channel and the
\* listener itself; a process_signal call runs only while the consumer waits
\* for it, and the consumer takes an event only when no call is running and
\* the previous call, if any, has returned
C13_SingleWriterNoOverlap ==
    [][/\ SharedState' # SharedState => WritingConsumerStep
       /\ ListenerStep => UNCHANGED <<engineVars, loopVars, delivered>>
       /\ pc # "idle" => cstate = "body"
       /\ pc' # "idle" => cstate' = "body"
       /\ delivered' # delivered =>
            /\ pc = "idle"
            /\ calls = <<>> \/ outcome = "returned"]_vars

\* a call is placing its orders while a listener that holds a message is the
\* next task to run
C13_Witness ==
    /\ pc = "stop"
    /\ cstate = "body"
    /\ ready # <<>>
    /\ Head(ready) \in Listeners
    /\ lstate[Head(ready)] = "msg"

(***************************************************************************)
(* Properties of RiskManager.size_position (specification SizingSpec)      *)
(***************************************************************************)
SizingDone ==
    pure_call.fn = "RiskManager.size_position" /\ pure_result.status = "done"

PassesGuards ==
    /\ pure_call.direction \in {"long", "short"}
    /\ RLt(R(0), pure_call.price)
    /\ RLt(R(0), RMul(pure_call.atr, Settings.atr_multiplier_sl))

AllZero(value) ==
    /\ value.quantity = R(0)
    /\ value.notional = R(0)
    /\ value.cost = R(0)
    /\ value.stop_loss = R(0)
    /\ value.take_profit = R(0)
    /\ ~value.trailing_active

\* C21: for a call that passes the guards and is given a sizing, under a
\* positive leverage: with fixed_cost > 0 the cost is fixed_cost, the notional
\* cost * leverage and the quantity notional / price; otherwise the quantity
\* is balance * risk_perc * leverage / (ATR * sl_multiplier), the notional
\* quantity * price and the cost notional / leverage
C21_SizingFormulas ==
    (SizingDone /\ PassesGuards /\ ~AllZero(pure_result.value)
     /\ pure_call.leverage > 0) =>
        LET value == pure_result.value
            lev   == R(pure_call.leverage)
            rp    == IF RLt(R(1), pure_call.risk_per_trade_pct)
                     THEN RDiv(pure_call.risk_per_trade_pct, R(100))
                     ELSE pure_call.risk_per_trade_pct
        IN  IF RLt(R(0), pure_call.fixed_cost)
            THEN /\ value.cost = pure_call.fixed_cost
                 /\ value.notional = RMul(value.cost, lev)
                 /\ value.quantity = RDiv(value.notional, pure_call.price)
            ELSE /\ value.quantity =
                      RDiv(RMul(RMul(pure_call.quote_balance, rp), lev),
                           RMul(pure_call.atr, Settings.atr_multiplier_sl))
                 /\ value.notional = RMul(value.quantity, pure_call.price)
                 /\ value.cost = RDiv(value.notional, lev)

\* the example of the claim: ATR 100, balance 10000, risk 0.01, leverage 5
\* at price 1000 give quantity 2, notional 2000 and cost 400
C21_Witness ==
    /\ SizingDone
    /\ pure_call.quote_balance = R(10000)
    /\ pure_call.risk_per_trade_pct = Rat(1, 100)
    /\ pure_call.leverage = 5
    /\ pure_call.fixed_cost = R(0)
    /\ pure_call.atr = R(100)
    /\ pure_call.price = R(1000)
    /\ pure_call.direction = "long"
    /\ pure_result.value.quantity = R(2)
    /\ pure_result.value.notional = R(2000)
    /\ pure_result.value.cost = R(400)

\* C22: whatever the inputs and the account, size_position returns the
\* all-zero sizing or a sizing with quantity > 0, notional > 0 and cost >= 0
C22_NeverNegative ==
    SizingDone =>
        LET value == pure_result.value
        IN  \/ AllZero(value)
            \/ /\ RLt(R(0), value.quantity)
               /\ RLt(R(0), value.notional)
               /\ RLeq(R(0), value.cost)

\* a negative balance with a negative leverage: the quantity is positive and
\* the negative cost was raised to 0; and a negative fixed cost was ignored
C22_Witness ==
    /\ SizingDone
    /\ pure_call.quote_balance = R(-10000)
    /\ pure_call.leverage = -5
    /\ pure_call.fixed_cost = R(-50)
    /\ RLt(R(0), pure_result.value.quantity)
    /\ pure_result.value.cost = R(0)

(***************************************************************************)
(* Properties of SignalEngine.evaluate (specification SignalSpec)          *)
(***************************************************************************)
EvaluateDone ==
    pure_call.fn = "SignalEngine.evaluate" /\ pure_result.status = "done"

Weight(key, default) ==
    IF key \in DOMAIN pure_call.weights THEN pure_call.weights[key] ELSE default

\* the composite score as the claims define it
ClaimedComposite ==
    LET sum == RAdd(RAdd(RMul(pure_call.trend_score,
                              Weight("trend_score_weight", Rat(2, 5))),
                         RMul(pure_call.momentum_score,
                              Weight("momentum_score_weight", Rat(1, 4)))),
                    RSub(RMul(pure_call.imbalance,
                              Weight("orderflow_score_weight", Rat(1, 5))),
                         RMul(pure_call.liquidation_pressure,
                              RDiv(Weight("liquidity_score_weight", Rat(3, 20)),
                                   R(2)))))
    IN  IF pure_call.structure_break THEN RAdd(sum, Rat(1, 2)) ELSE sum

\* C23: the direction is long exactly when composite > 0.25, short exactly
\* when composite < -0.25 and flat otherwise, so also at 0.25 and -0.25; the
\* confidence is min(1, |composite|); composite is the weighted sum of the
\* claim, plus 0.5 on a structure break
C23_DirectionByComposite ==
    EvaluateDone =>
        LET c     == ClaimedComposite
            value == pure_result.value
        IN  /\ value.direction = "long" <=> RLt(Rat(1, 4), c)
            /\ value.direction = "short" <=> RLt(c, Rat(-1, 4))
            /\ value.direction = "flat" <=> (RLeq(c, Rat(1, 4)) /\ RLeq(Rat(-1, 4), c))
            /\ value.confidence = (IF RLt(R(1), RAbs(c)) THEN R(1) ELSE RAbs(c))

\* a composite of exactly 0.25 was evaluated to flat with confidence 0.25
C23_Witness ==
    /\ EvaluateDone
    /\ ClaimedComposite = Rat(1, 4)
    /\ pure_result.value.direction = "flat"
    /\ pure_result.value.confidence = Rat(1, 4)

\* the rationale strings in the order of the claim
ClaimedReasons ==
    <<IF pure_call.signal = "long" THEN "Momentum e tendencia favorecem compra"
      ELSE IF pure_call.signal = "short" THEN "Momentum e tendencia favorecem venda"
      ELSE "Sinal tecnico neutro">>
    \o <<IF RLt(Rat(3, 20), pure_call.imbalance) THEN "Fluxo comprador agressivo"
         ELSE IF RLt(pure_call.imbalance, Rat(-3, 20)) THEN "Fluxo vendedor agressivo"
         ELSE "Order flow neutro">>
    \o (IF pure_call.structure_break THEN <<"Structure break detectada">> ELSE <<>>)
    \o (IF RLt(R(3), RAbs(pure_call.atr_pct)) THEN <<"Alta volatilidade relativa">>
        ELSE <<>>)

\* C24: the reasons are the technical-bias string, then the order-flow string
\* (thresholds 0.15 and -0.15), then the structure-break notice when
\* structure_break is true, then the high-volatility notice when
\* |atr_pct| > 3
C24_ReasonsInOrder ==
    EvaluateDone => pure_result.value.reasons = ClaimedReasons

\* C24 as the code has it: the structure-break notice, when structure_break
\* is true, comes first; then the technical-bias string, then the order-flow
\* string (buyer flow when imbalance > 0.15, seller flow when imbalance <
\* -0.15, neutral otherwise), then the high-volatility notice when
\* |atr_pct| > 3; nothing else is in the list
C24_ReasonsAsAppended ==
    EvaluateDone =>
        LET reasons == pure_result.value.reasons
            notice  == IF pure_call.structure_break THEN 1 ELSE 0
            high    == IF RLt(R(3), RAbs(pure_call.atr_pct)) THEN 1 ELSE 0
        IN  /\ Len(reasons) = notice + 2 + high
            /\ notice = 1 => reasons[1] = "Structure break detectada"
            /\ reasons[notice + 1] = ClaimedReasons[1]
            /\ reasons[notice + 2] = ClaimedReasons[2]
            /\ high = 1 => reasons[notice + 3] = "Alta volatilidade relativa"

\* a decision with all four strings: structure break, a buying technical
\* signal, seller flow and high volatility
C24_Witness ==
    /\ EvaluateDone
    /\ pure_call.structure_break
    /\ pure_result.value.reasons =
         <<"Structure break detectada", "Momentum e tendencia favorecem compra",
           "Fluxo vendedor agressivo", "Alta volatilidade relativa">>

(***************************************************************************)
(* Properties of OrderFlowAnalyzer (specification FlowSpec)                *)
(***************************************************************************)
\* the last n entries of a log, or all of it when it is shorter
MostRecent(log, n) ==
    IF Len(log) <= n THEN log ELSE SubSeq(log, Len(log) - n + 1, Len(log))

\* C25: after any sequence of updates neither buffer holds more entries than
\* its capacity, and each buffer is the most recent entries given to it, in
\* arrival order: a full buffer has lost its oldest entries first
C25_BuffersKeepMostRecent ==
    /\ Len(of_trades) <= DequeMaxlen
    /\ Len(of_liquidations) <= DequeMaxlen
    /\ of_trades = MostRecent(trade_log, DequeMaxlen)
    /\ of_liquidations = MostRecent(liquidation_log, DequeMaxlen)

\* more trades than the capacity were recorded, the evicted one different
\* from those kept
C25_Witness ==
    /\ Len(trade_log) > DequeMaxlen
    /\ Len(of_trades) = DequeMaxlen
    /\ trade_log[1] # of_trades[1]
    /\ trade_log[1] # of_trades[DequeMaxlen]

Within(a) ==
    RLeq(R(-1), a) /\ RLeq(a, R(1))

\* C26: every snapshot returned has imbalance and liquidation_pressure in
\* [-1, 1]; imbalance is 0 when no trade is recorded or all recorded
\* quantities are 0, liquidation_pressure is 0 when no liquidation is
\* recorded; snapshot() changes neither buffer and returns what the call
\* before it returned
C26_SnapshotBoundedAndPure ==
    [][pure_result'.status = "done" =>
         LET value == pure_result'.value
         IN  /\ Within(value.imbalance)
             /\ Within(value.liquidation_pressure)
             /\ (\A i \in DOMAIN of_trades' : of_trades'[i].quantity = R(0))
                  => value.imbalance = R(0)
             /\ of_liquidations' = <<>> => value.liquidation_pressure = R(0)
             /\ pure_call'.fn = "snapshot" =>
                  /\ UNCHANGED flowVars
                  /\ pure_result.status = "done" => pure_result'.value = pure_result.value
                  /\ pure_result'.value = snapshot(of_trades, of_liquidations)]_vars

\* snapshot() was called after trades of both sides and a liquidation: the
\* imbalance is strictly between 0 and 1 and the pressure is -1
C26_Witness ==
    /\ pure_call.fn = "snapshot"
    /\ pure_result.status = "done"
    /\ Len(of_trades) = 2
    /\ RLt(R(0), pure_result.value.imbalance)
    /\ RLt(pure_result.value.imbalance, R(1))
    /\ pure_result.value.liquidation_pressure = R(-1)

(***************************************************************************)
(* Further properties of the Trade Engine (specification Spec)             *)
(***************************************************************************)
\* C27: at the end of every decision cycle, aborted ones included, the
\* portfolio holds a position for the symbol exactly when the exchange has
\* accepted an opening order of this engine that no accepted closing order
\* has followed
C27_PortfolioMatchesExchange ==
    Finished => (has_position(positions, Symbol) <=> exchange_position)

\* the call is over, it started with a position that the decision closes
\* (flat, or the opposite direction), and its closing order failed
ClosingOrderFailed ==
    /\ pc = "idle"
    /\ HadPosition
    /\ decision = "flat" \/ Reversing
    /\ Len(orders) >= 1
    /\ orders[1].outcome # "accepted"

\* C28: when the closing order of a flat or reversing decision fails at the
\* gateway, the failure leaves process_signal as an exception, the portfolio
\* is exactly as before the call (the position is still registered, with the
\* same fields) and the closing order is the only order of that cycle
C28_FailedCloseKeepsPosition ==
    ClosingOrderFailed =>
        /\ Aborted
        /\ outcome = orders[1].outcome
        /\ positions = positions_at_call
        /\ has_position(positions, Symbol)
        /\ Len(orders) = 1
        /\ orders[1].request = close_order(positions_at_call[Symbol],
                                            orders[1].request.position_side)

\* a reversing decision whose closing order the exchange rejected
C28_Witness ==
    /\ ClosingOrderFailed
    /\ Reversing
    /\ outcome = "rejected"
    /\ positions[Symbol].direction # decision

(***************************************************************************)
(* Properties of the registered Position (specification FilterSpec)        *)
(***************************************************************************)
\* the last call opened a position: opening, stop-loss and take-profit
\* orders were accepted, in this order
OpenedPosition ==
    /\ Returned
    /\ report.opened
    /\ Len(orders) = 3
    /\ has_position(positions, Symbol)

\* C29: the Position registered after a successful open carries the values
\* the gateway normalized: its quantity is the step-rounded quantity of the
\* opening order, which both protection orders request, and its stop_loss
\* and take_profit are the tick-rounded stop prices of the stop-loss and
\* take-profit orders, whatever the normalized value is (0 included)
C29_PositionCarriesNormalizedValues ==
    OpenedPosition =>
        LET position == positions[Symbol]
            lot      == select_lot_filter(exchange_filters, "MARKET")
        IN  /\ position.quantity = orders[1].sent.quantity
            /\ position.quantity =
                   round_to_step(orders[1].request.quantity, lot.stepSize)
            /\ orders[2].request.quantity = position.quantity
            /\ orders[3].request.quantity = position.quantity
            /\ orders[2].request.order_type = "STOP_MARKET"
            /\ orders[3].request.order_type = "TAKE_PROFIT_MARKET"
            /\ position.stop_loss = orders[2].sent.stop_price
            /\ position.take_profit = orders[3].sent.stop_price

\* the same without the two stop prices
C29_QuantityPart ==
    OpenedPosition =>
        LET position == positions[Symbol]
            lot      == select_lot_filter(exchange_filters, "MARKET")
        IN  /\ position.quantity = orders[1].sent.quantity
            /\ position.quantity =
                   round_to_step(orders[1].request.quantity, lot.stepSize)
            /\ orders[2].request.quantity = position.quantity
            /\ orders[3].request.quantity = position.quantity
            /\ orders[2].sent.stop_price # R(0) =>
                   position.stop_loss = orders[2].sent.stop_price
            /\ orders[3].sent.stop_price # R(0) =>
                   position.take_profit = orders[3].sent.stop_price

(***************************************************************************)
(* Termination of events() (specification LiveStreamSpec)                  *)
(***************************************************************************)
\* the stream was started and can deliver nothing more: stop() has been
\* called, or all three listener tasks have terminated
NothingMoreToCome ==
    /\ cstate \notin {"boot", "ended"}
    /\ stop_flag \/ \A k \in Listeners : lstate[k] = "done"

\* the iteration over events() is over
IteratorEnded ==
    cstate \in {"exit", "stop_wait", "ended"}

\* C30: once stop() has been called, or all three listener tasks have
\* terminated, the iteration over events() eventually ends, also when the
\* queue is empty at that moment
C30_IteratorEventuallyEnds ==
    NothingMoreToCome ~> IteratorEnded

=============================================================================
